---- MODULE Spec2Model ----
(***************************************************************************)
(* A model of dn3's data layer (src/dn3/data/dataset.py): the Dataset ->   *)
(* Thinker -> Recording hierarchy with its prefix-sum index, the windowing *)
(* of RawTorchRecording, and the subject-level cross-validation splitters  *)
(* Dataset.loso / Dataset.lmso.                                            *)
(*                                                                         *)
(* Three specifications share the module's variables:                      *)
(*   Spec       the hierarchy: construction, __add__, __getitem__          *)
(*   SpecRaw    RawTorchRecording: __init__, __len__, __getitem__          *)
(*   SpecSplit  Dataset.loso / lmso / _generate_splits                     *)
(* Python indices are 0-based; TLA+ sequences are 1-based, so a Python     *)
(* a[k] is written a[k + 1].                                               *)
(***************************************************************************)
EXTENDS Integers, Sequences, FiniteSets, TLC

VARIABLES
    thinkers,   \* Dataset.thinkers: the keys of the OrderedDict, in order
    sessions,   \* person id -> Thinker.sessions: sequence of [id, len]
    th_cum,     \* person id -> Thinker.cumulative_sizes
    ds_cum,     \* Dataset.cumulative_sizes
    nadds,      \* number of successful __add__ calls after construction (bounded)
    res,        \* outcome of the last hierarchy operation
    raw,        \* a RawTorchRecording: its parameters and derived fields
    rres,       \* outcome of the last RawTorchRecording.__getitem__
    subjects,   \* get_thinkers() of the Dataset being split
    idkind,     \* the Python type of the person ids of that Dataset: "str" or "int"
    ids,        \* which of dataset_id / task_id the Dataset was given
    call,       \* the loso / lmso call in progress
    pending,    \* the (validation, testing) pairs _generate_splits still zips
    yielded,    \* the triples the generator has yielded so far
    gen,        \* the generator: [st |-> "idle" | "running" | "done" | "error", ...]
    src,        \* the Dataset a partition is derived from: keys, transforms, flags
    thk,        \* Thinker object -> its Recording objects, transforms and flags
    like,       \* the partition _make_like_me returned (like_me)
    lop,        \* the last operation on the source or on the partition
    cfg,        \* the Dataset items are read from: constructor flags, kind of Recording
    xf,         \* the transform lists of that Dataset, its Thinkers and Recordings
    fetched,    \* outcome of the last Dataset.__getitem__ with its identifiers
    tree,       \* a Dataset for property queries: Thinkers, Recordings, transforms
    asked,      \* the last property query and its outcome
    tsplit,     \* a Thinker and the outcome of its split call
    held,       \* a Dataset with the ids stored on its Thinkers and Recordings
    erec,       \* an EpochTorchRecording: trials, cache, label mapping
    eout,       \* outcome of the last operation on it
    rd,         \* the concurrent readers of it, each at its position in __getitem__
    pds,        \* a Dataset being preprocessed: the transform lists of its entities
    pout        \* outcome of the last preprocess or item retrieval on it

hvars == <<thinkers, sessions, th_cum, ds_cum, nadds, res>>
rvars == <<raw, rres>>
svars == <<subjects, idkind, ids, call, pending, yielded, gen>>
lvars == <<src, thk, like, lop>>
ivars == <<cfg, xf, fetched>>
pvars == <<tree, asked>>
tvars == <<tsplit>>
ovars == <<held>>
evars == <<erec, eout, rd>>
qvars == <<pds, pout>>
vars == <<thinkers, sessions, th_cum, ds_cum, nadds, res, raw, rres,
          subjects, idkind, ids, call, pending, yielded, gen,
          src, thk, like, lop, cfg, xf, fetched,
          tree, asked, tsplit, held, erec, eout, rd, pds, pout>>

----------------------------------------------------------------------------
(* Bounds of the model *)

\* the longest Recording (in windows / trials), also after a merge
MaxLen == 2
\* the number of __add__ calls explored after construction
MaxAdds == 1

\* person ids and session ids the hierarchy draws from
People == {1, 2}
SessionIds == {1, 2}

\* RawTorchRecording: raw.n_times, sequence_length, stride, decimate, channels
MaxN == 6
MaxSeqLen == 2
MaxStride == 3
MaxDecimate == 2
NumCh == 2

\* loso / lmso: subjects of the Dataset, fold counts, characters of a str id
MaxSubjects == 4
MaxFolds == 3
IdLen == 2

----------------------------------------------------------------------------
(* Helpers on sequences *)

RECURSIVE SumSeq(_)
SumSeq(s) == IF s = <<>> THEN 0 ELSE s[1] + SumSeq(Tail(s))

Range(s) == {s[k] : k \in 1..Len(s)}

\* position (1-based) of x in s, 0 when absent
IndexOf(s, x) == IF x \in Range(s) THEN CHOOSE k \in 1..Len(s) : s[k] = x ELSE 0

Last(s) == s[Len(s)]

----------------------------------------------------------------------------
(* torch's ConcatDataset, as Thinker and Dataset initialise and use it *)

\* ConcatDataset.__init__: cumulative_sizes = running sum of len(child)
RECURSIVE CumSum(_)
CumSum(lens) ==
    IF lens = <<>> THEN <<>>
    ELSE LET front == CumSum(SubSeq(lens, 1, Len(lens) - 1))
         IN  Append(front, SumSeq(lens))

\* bisect.bisect_right(a, x, lo, hi): the binary search of the standard library
RECURSIVE BisectStep(_, _, _, _)
BisectStep(a, x, lo, hi) ==
    IF lo < hi
    THEN LET mid == (lo + hi) \div 2
         IN  IF x < a[mid + 1] THEN BisectStep(a, x, lo, mid)
                               ELSE BisectStep(a, x, mid + 1, hi)
    ELSE lo

\* a leftmost search, as bisect.bisect_left would do (used only as a mutant)
BisectLeftCount(a, x) == Cardinality({k \in 1..Len(a) : a[k] < x})

BisectRight(a, x) == BisectStep(a, x, 0, Len(a))

\* start offset of child k (0-based) in a prefix-sum index
StartOf(cum, k) == IF k = 0 THEN 0 ELSE cum[k]

----------------------------------------------------------------------------
(* The hierarchy *)

SessLens(p) == [k \in 1..Len(sessions[p]) |-> sessions[p][k].len]
SessIds(p) == [k \in 1..Len(sessions[p]) |-> sessions[p][k].id]

\* Thinker.__len__ = ConcatDataset.__len__ = cumulative_sizes[-1]
ThinkerLen(p) == Last(th_cum[p])

\* Dataset.__len__
DatasetLen == Last(ds_cum)

\* Dataset._reset_dataset: ConcatDataset.__init__ over the thinkers' current lengths
ResetDataset(ths, tcum) == CumSum([k \in 1..Len(ths) |-> Last(tcum[ths[k]])])

NoRes == [op |-> "none"]

\* Thinker(recordings) before it joins a Dataset: one Recording per distinct
\* session id (lines 361-364 add them one by one), here given in id order
FreshThinkers ==
    {ss \in UNION {[1..k -> [id : SessionIds, len : 0..MaxLen]] :
                      k \in 1..Cardinality(SessionIds)} :
        \A i, j \in 1..Len(ss) : i < j => ss[i].id < ss[j].id}

\* Dataset(thinkers) over one Thinker: the constructor calls __add__ for each
\* thinker in sorted key order and then _reset_dataset, so a Dataset of several
\* thinkers is this state followed by DatasetAdd steps.
InitH ==
    \E p \in People, ss \in FreshThinkers :
        /\ thinkers = <<p>>
        /\ sessions = [q \in People |-> IF q = p THEN ss ELSE <<>>]
        /\ th_cum = [q \in People |->
                        IF q = p THEN CumSum([k \in 1..Len(ss) |-> ss[k].len]) ELSE <<>>]
        /\ ds_cum = <<SumSeq([k \in 1..Len(ss) |-> ss[k].len])>>
        /\ nadds = 0
        /\ nadds = 0
    /\ res = NoRes

IdleH ==
    /\ thinkers = <<>>
    /\ sessions = [q \in People |-> <<>>]
    /\ th_cum = [q \in People |-> <<>>]
    /\ ds_cum = <<>>
    /\ nadds = 0
    /\ res = NoRes

\* Thinker.__add__(recording) body on the sessions OrderedDict
AddSession(ss, s, n) ==
    LET k == IndexOf([j \in 1..Len(ss) |-> ss[j].id], s)
    IN  IF k > 0
        THEN \* self.sessions[id] += recording: torch's Dataset.__add__ -> ConcatDataset
             [ss EXCEPT ![k] = [id |-> s, len |-> ss[k].len + n]]
        ELSE Append(ss, [id |-> s, len |-> n])

\* Thinker.__add__ on a Thinker held by the Dataset: the Thinker's own index is
\* rebuilt, the Dataset's is not touched.
ThinkerAdd(p, s, n) ==
    /\ nadds < MaxAdds
    /\ nadds' = nadds + 1
    /\ p \in Range(thinkers)
    /\ LET ss == AddSession(sessions[p], s, n)
       IN  /\ \A k \in 1..Len(ss) : ss[k].len <= MaxLen  \* bound of the model
           /\ sessions' = [sessions EXCEPT ![p] = ss]
           /\ th_cum' = [th_cum EXCEPT ![p] = CumSum([k \in 1..Len(ss) |-> ss[k].len])]
    /\ res' = [op |-> "thinker_add", person |-> p]
    /\ UNCHANGED <<thinkers, ds_cum>>

\* Dataset.__add__(Thinker(ss, person_id = p)) for a person id not yet held
DatasetAdd(p, ss) ==
    /\ nadds < MaxAdds
    /\ nadds' = nadds + 1
    /\ p \notin Range(thinkers)
    /\ thinkers' = Append(thinkers, p)
    /\ sessions' = [sessions EXCEPT ![p] = ss]
    /\ th_cum' = [th_cum EXCEPT ![p] = CumSum([k \in 1..Len(ss) |-> ss[k].len])]
    /\ ds_cum' = ResetDataset(thinkers', th_cum')
    /\ res' = [op |-> "dataset_add", person |-> p, kind |-> "ok"]

\* Dataset.__add__(thinker) for a person id already held:
\* self.thinkers[p] += thinker calls Thinker.__add__(Thinker), which reads
\* session_id of the OrderedDict of sessions and fails before _reset_dataset
DatasetAddExisting(p) ==
    /\ p \in Range(thinkers)
    /\ res' = [op |-> "dataset_add", person |-> p, kind |-> "AttributeError"]
    /\ UNCHANGED <<thinkers, sessions, th_cum, ds_cum, nadds>>

\* ConcatDataset.__getitem__(idx) of a Thinker followed by lines 437-439
ThinkerGetItem(p, item) ==
    IF item < 0 /\ 0 - item > ThinkerLen(p)
    THEN [kind |-> "ValueError"]
    ELSE LET idx == IF item < 0 THEN ThinkerLen(p) + item ELSE item
             dataset_idx == BisectRight(th_cum[p], idx)
         IN  IF dataset_idx >= Len(th_cum[p])
             THEN [kind |-> "IndexError"]
             ELSE [kind |-> "ok",
                   session |-> dataset_idx,
                   local |-> idx - StartOf(th_cum[p], dataset_idx),
                   \* line 437: bisect on the index as passed, not the wrapped one
                   session_idx |-> BisectRight(th_cum[p], item)]

\* Dataset.__getitem__(item)
DatasetGetItemResult(item) ==
    LET person_id == BisectRight(ds_cum, item)
        sample_idx == item - StartOf(ds_cum, person_id)
    IN  IF person_id >= Len(thinkers)
        THEN [op |-> "getitem", item |-> item, kind |-> "IndexError"]
        ELSE LET t == ThinkerGetItem(thinkers[person_id + 1], sample_idx)
             IN  IF t.kind # "ok"
                 THEN [op |-> "getitem", item |-> item, kind |-> t.kind]
                 ELSE [op |-> "getitem", item |-> item, kind |-> "ok",
                       person |-> person_id, sample |-> sample_idx,
                       session |-> t.session, local |-> t.local]

TotalItems == SumSeq([k \in 1..Len(thinkers) |-> SumSeq(SessLens(thinkers[k]))])

DatasetGetItem(item) ==
    /\ res' = DatasetGetItemResult(item)
    /\ UNCHANGED <<thinkers, sessions, th_cum, ds_cum, nadds>>

NextH ==
    \/ \E p \in People, s \in SessionIds, n \in 0..MaxLen : ThinkerAdd(p, s, n)
    \/ \E p \in People, ss \in FreshThinkers : DatasetAdd(p, ss)
    \/ \E p \in People : DatasetAddExisting(p)
    \/ \E i \in (0 - MaxLen - 1)..(TotalItems + 1) : DatasetGetItem(i)

----------------------------------------------------------------------------
(* Claims about the hierarchy, checked under Spec *)

\* C1: after construction and after any sequence of add operations on a
\* Thinker or on the Dataset, len(Dataset) is the sum of the lengths of its
\* Thinkers and each Thinker's length is the sum of the lengths of its Recordings.
C1_LengthIsSum ==
    /\ DatasetLen = SumSeq([k \in 1..Len(thinkers) |-> ThinkerLen(thinkers[k])])
    /\ \A p \in Range(thinkers) : ThinkerLen(p) = SumSeq(SessLens(p))

\* C2: every flat index i in [0, len(Dataset)) resolves to (subject, session,
\* local) with subject start offset + session start offset + local = i and
\* 0 <= local < len(Recording); at both levels the chosen child is the
\* rightmost one whose start offset in the prefix-sum index is <= the index,
\* also when some children have length 0.
C2_IndexRoundTrip ==
    (res.op = "getitem" /\ 0 <= res.item /\ res.item < DatasetLen) =>
        /\ res.kind = "ok"
        /\ LET p == thinkers[res.person + 1]
               dstart == StartOf(ds_cum, res.person)
               sstart == StartOf(th_cum[p], res.session)
           IN  /\ dstart + sstart + res.local = res.item
               /\ res.sample = res.item - dstart
               /\ 0 <= res.local
               /\ res.local < sessions[p][res.session + 1].len
               /\ dstart <= res.item
               /\ \A k \in (res.person + 1)..(Len(thinkers) - 1) :
                      StartOf(ds_cum, k) > res.item
               /\ sstart <= res.sample
               /\ \A k \in (res.session + 1)..(Len(sessions[p]) - 1) :
                      StartOf(th_cum[p], k) > res.sample

\* C2 witness: an index that resolves past a zero-length subject into the
\* second session of a later subject, at a non-zero local index
C2_Witness ==
    /\ res.op = "getitem" /\ res.kind = "ok"
    /\ res.person >= 1 /\ res.session = 1 /\ res.local >= 1
    /\ ThinkerLen(thinkers[1]) = 0
    /\ res.item = StartOf(th_cum[thinkers[res.person + 1]], 1) + res.local

\* C3: get(i) on a Dataset with i outside [0, len(Dataset)), above or below,
\* ends in an index error and returns no item.
\* (any exception raised for the index counts as the index error)
C3_OutOfRangeIsIndexError ==
    (res.op = "getitem" /\ (res.item < 0 \/ res.item >= DatasetLen)) =>
        res.kind \in {"IndexError", "ValueError"}

----------------------------------------------------------------------------
(* RawTorchRecording *)

Min(a, b) == IF a < b THEN a ELSE b
Max(a, b) == IF a > b THEN a ELSE b

\* Python's floor division for a positive divisor
FloorDiv(a, b) == IF a >= 0 THEN a \div b ELSE 0 - ((0 - a + b - 1) \div b)

Channels == 0..(NumCh - 1)

\* ch_ind_picks: a list of distinct channel indices (None = all, in order)
PickLists ==
    {pk \in UNION {[1..k -> Channels] : k \in 1..NumCh} :
        \A i, j \in 1..Len(pk) : i # j => pk[i] # pk[j]}

\* the sample of channel c at time t of the recorded buffer
Sample(c, t) == <<c, t>>

\* raw.get_data(picks, start, stop): rows in pick order, samples start..stop-1
\* clipped to the buffer; fails when the range holds no sample
GetData(n_times, picks, start, stop) ==
    LET hi == Min(stop, n_times)
    IN  IF start >= hi
        THEN [kind |-> "ValueError", x |-> <<>>]
        ELSE [kind |-> "ok",
              x |-> [r \in 1..Len(picks) |->
                        [k \in 1..(hi - start) |-> Sample(picks[r], start + k - 1)]]]

\* line 216: the number of windows, as the constructor computes it
NumSequences(n_times, sequence_length, stride) ==
    Max(0, FloorDiv(n_times - sequence_length, stride))

\* line 211
StrideLoad(stride, sequence_length, preload) == stride > sequence_length /\ preload

\* lines 222-224: x = raw.get_data(picks)[:, ::decimate], one row per pick
Decimated(n_times, picks, decimate) ==
    [r \in 1..Len(picks) |->
        [k \in 1..((n_times + decimate - 1) \div decimate) |->
            Sample(picks[r], (k - 1) * decimate)]]

\* lines 225-228: the dense cache, window i holding x[:, t:t+sequence_length]
\* with t = i * stride * decimate; numpy refuses a slice it cannot broadcast
\* into the window (it can broadcast a slice of one sample)
BuildCache(n_times, picks, sequence_length, stride, decimate, num) ==
    LET x == Decimated(n_times, picks, decimate)
        cnt == (n_times + decimate - 1) \div decimate
        t(i) == i * stride * decimate
        m(i) == Max(0, Min(t(i) + sequence_length, cnt) - t(i))
        fits(i) == m(i) = sequence_length \/ m(i) = 1
    IN  IF \A i \in 0..(num - 1) : fits(i)
        THEN [kind |-> "ok",
              x |-> [i \in 1..num |->
                        [r \in 1..Len(picks) |->
                            [k \in 1..sequence_length |->
                                IF m(i - 1) = sequence_length
                                THEN x[r][t(i - 1) + k]
                                ELSE x[r][t(i - 1) + 1]]]]]
        ELSE [kind |-> "ValueError", x |-> <<>>]

\* RawTorchRecording.__init__
RawConstruct ==
    /\ raw.state = "params"
    /\ LET num == NumSequences(raw.n_times, raw.sequence_length, raw.stride)
           sl == StrideLoad(raw.stride, raw.sequence_length, raw.preload)
           cache == IF sl /\ num > 0
                    THEN BuildCache(raw.n_times, raw.picks, raw.sequence_length,
                                    raw.stride, raw.decimate, num)
                    ELSE [kind |-> "ok", x |-> <<>>]
       IN  raw' = [raw EXCEPT !.state = IF cache.kind = "ok" THEN "ready" ELSE cache.kind,
                              !.stride_load = sl,
                              !.num_sequences = num,
                              !.x = cache.x]
    /\ rres' = [op |-> "init"]

\* RawTorchRecording.__len__
RawLen == raw.num_sequences

\* lines 237-238: slicing on demand
OnDemand(index) ==
    GetData(raw.n_times, raw.picks, index * raw.stride * raw.decimate,
            index * raw.stride * raw.decimate + raw.sequence_length)

\* line 235: self._x[self.picks, :, index]
FromCache(index) ==
    IF index < 0 \/ index >= Len(raw.x)
       \/ \E r \in 1..Len(raw.picks) : raw.picks[r] >= Len(raw.picks)
    THEN [kind |-> "IndexError", x |-> <<>>]
    ELSE [kind |-> "ok",
          x |-> [r \in 1..Len(raw.picks) |-> raw.x[index + 1][raw.picks[r] + 1]]]

\* RawTorchRecording.__getitem__(index)
RawGetItemResult(index) ==
    LET idx == IF index < 0 THEN index + RawLen ELSE index
        got == IF raw.stride_load THEN FromCache(idx) ELSE OnDemand(idx)
    IN  [op |-> "getitem", index |-> index,
         via |-> IF raw.stride_load THEN "cache" ELSE "slice",
         kind |-> got.kind, x |-> got.x]

RawGetItem(index) ==
    /\ raw.state = "ready"
    /\ rres' = RawGetItemResult(index)
    /\ UNCHANGED raw

InitR ==
    /\ \E n \in 0..MaxN, l \in 1..MaxSeqLen, st \in 1..MaxStride, d \in 1..MaxDecimate,
          pk \in PickLists, pre \in BOOLEAN :
          raw = [state |-> "params", n_times |-> n, sequence_length |-> l, stride |-> st,
                 decimate |-> d, picks |-> pk, preload |-> pre,
                 stride_load |-> FALSE, num_sequences |-> 0, x |-> <<>>]
    /\ rres = [op |-> "none"]

NextR ==
    \/ RawConstruct
    \/ \E i \in 0..(RawLen - 1) : RawGetItem(i)

----------------------------------------------------------------------------
(* Claims about RawTorchRecording, checked under SpecRaw *)

\* C4: the length of a continuous Recording with N samples, decimation D,
\* window length L and stride S is max(0, floor((N/D - L) / S)).
C4_WindowCount ==
    raw.state = "ready" =>
        RawLen = Max(0, FloorDiv((raw.n_times \div raw.decimate) - raw.sequence_length,
                                 raw.stride))

\* C5: with stride > sequence length and a resident buffer, get(i) served from
\* the dense cache returns, for every i in [0, length()), every decimation
\* factor and every channel-pick list, the samples that slicing the buffer on
\* demand at start offset i * stride * decimate returns.
C5_CacheEqualsSlicing ==
    (rres.op = "getitem" /\ rres.via = "cache") =>
        /\ rres.kind = "ok"
        /\ OnDemand(rres.index).kind = "ok"
        /\ rres.x = OnDemand(rres.index).x

----------------------------------------------------------------------------
(* Dataset.loso, Dataset.lmso and Dataset._generate_splits *)

\* Person ids are modelled as 1..MaxSubjects, standing for ints or for strs of
\* IdLen characters in the same order. NotId stands for any object that is no
\* person id of the Dataset: a character of a str id, or a nested group.
SubjectIds == 1..MaxSubjects
NotId == 0

Perms(S) == {q \in [1..Cardinality(S) -> S] : \A i, j \in 1..Cardinality(S) : i # j => q[i] # q[j]}

\* sorted(keys)
SortedSeq(S) == CHOOSE q \in Perms(S) : \A i, j \in 1..Cardinality(S) : i < j => q[i] < q[j]

\* lists of distinct person ids a caller passes
IdLists ==
    {l \in UNION {[1..k -> SubjectIds] : k \in 1..2} :
        \A i, j \in 1..Len(l) : i # j => l[i] # l[j]}

\* numpy.array_split(l, k): k contiguous groups, the first Len(l) % k one longer
ArraySplit(l, k) ==
    LET n == Len(l)
        q == n \div k
        r == n % k
        size(i) == q + (IF i <= r THEN 1 ELSE 0)
        start(i) == (i - 1) * q + (IF i - 1 < r THEN i - 1 ELSE r)
    IN  [i \in 1..k |-> SubSeq(l, start(i) + 1, start(i) + size(i))]

\* arguments of loso / lmso
ArgNone == [t |-> "none"]
ArgId(n) == [t |-> "id", id |-> n]
ArgList(l) == [t |-> "list", l |-> l]
ArgNested(c, g) == [t |-> "nested", c |-> c, g |-> g]

LosoArgs == {ArgNone} \cup {ArgId(n) : n \in SubjectIds} \cup {ArgList(l) : l \in IdLists}

\* the id lists lmso is given: distinct ids, here in increasing order
SplitLists == {l \in IdLists : \A i, j \in 1..Len(l) : i < j => l[i] < l[j]}

\* id groups pre-nested into folds, as a list of lists or as a tuple of tuples
NestedLists == {ArgNested("list", ArraySplit(l, k)) : l \in SplitLists, k \in 1..2}
NestedTuples == {ArgNested("tuple", ArraySplit(l, k)) : l \in SplitLists, k \in 1..2}
FlatArgs == {ArgList(l) : l \in SplitLists}

\* lines 818-831: Dataset._make_like_me(people)
MakeLikeMe(people) ==
    IF Len(people) = 1
    THEN [kind |-> "Thinker", people |-> people, exc |-> "none"]
    ELSE IF ids.dataset /\ ~ids.task
    THEN \* line 823 reads self.task_id.item() whenever dataset_id is set
         [kind |-> "error", people |-> <<>>, exc |-> "AttributeError"]
    ELSE IF Len(people) = 0
    THEN \* Dataset({}) -> ConcatDataset.__init__ refuses an empty list
         [kind |-> "error", people |-> <<>>, exc |-> "AssertionError"]
    ELSE [kind |-> "Dataset", people |-> SortedSeq(Range(people)), exc |-> "none"]

\* lines 835-839: training.remove(x) for each x, in order
RECURSIVE RemoveEach(_, _)
RemoveEach(training, elems) ==
    IF elems = <<>> THEN [ok |-> TRUE, l |-> training]
    ELSE IF Head(elems) \notin Range(training) THEN [ok |-> FALSE, l |-> training]
    ELSE RemoveEach(SelectSeq(training, LAMBDA x : x # Head(elems)), Tail(elems))

GenError(exc, msg, idset, pair) ==
    [st |-> "error", exc |-> exc, msg |-> msg, ids |-> idset, pair |-> pair]

NoPair == [val |-> <<>>, test |-> <<>>]

\* the set a partition reports: get_thinkers() of a Dataset, person_id of a Thinker
PeopleSet(part) == Range(part.people)

\* one iteration of the loop of _generate_splits (lines 834-856)
SplitOutcome(pair) ==
    LET r1 == RemoveEach(subjects, pair.val)
        r2 == RemoveEach(r1.l, pair.test)
        training == MakeLikeMe(r2.l)
        validating == MakeLikeMe(pair.val)
        testing == MakeLikeMe(pair.test)
        overlap == PeopleSet(validating) \cap PeopleSet(testing)
    IN  IF ~r1.ok \/ ~r2.ok
        THEN GenError("ValueError", "list.remove(x): x not in list", {}, pair)
        ELSE IF training.kind = "error" THEN GenError(training.exc, "", {}, pair)
        ELSE IF validating.kind = "error" THEN GenError(validating.exc, "", {}, pair)
        ELSE IF testing.kind = "error" THEN GenError(testing.exc, "", {}, pair)
        ELSE IF overlap # {}
        THEN GenError("ValueError", "Validation and test overlap with ids", overlap, pair)
        ELSE [st |-> "yield",
              triple |-> [training |-> training, validation |-> validating,
                          test |-> testing]]

\* next() on the generator
GenNext ==
    /\ gen.st = "running"
    /\ IF pending = <<>>
       THEN /\ gen' = [st |-> "done"]
            /\ UNCHANGED <<pending, yielded>>
       ELSE LET out == SplitOutcome(Head(pending))
            IN  IF out.st = "yield"
                THEN /\ yielded' = Append(yielded, out.triple)
                     /\ pending' = Tail(pending)
                     /\ UNCHANGED gen
                ELSE /\ gen' = out
                     /\ UNCHANGED <<pending, yielded>>
    /\ UNCHANGED <<subjects, idkind, ids, call>>

\* zip(validation, testing)
Zip(vals, tests) ==
    [i \in 1..(IF Len(vals) < Len(tests) THEN Len(vals) ELSE Len(tests)) |->
        [val |-> vals[i], test |-> tests[i]]]

Singletons(l) == [i \in 1..Len(l) |-> <<l[i]>>]
Repeat(x, n) == [i \in 1..n |-> x]
Without(l, x) == SelectSeq(l, LAMBDA y : y # x)

\* lines 886-907: the pairs loso hands to _generate_splits, or the exception
LosoPairs(v, t) ==
    IF t.t = "id" /\ v.t = "id"
    THEN [ok |-> TRUE, pairs |-> <<[val |-> <<v.id>>, test |-> <<t.id>>]>>]
    ELSE IF t.t = "id" /\ idkind # "int"
    THEN [ok |-> TRUE,
          pairs |-> Zip(Singletons(Without(subjects, t.id)),
                        Repeat(<<t.id>>, Len(subjects) - 1))]
    ELSE LET \* lines 895-899
             test1 == IF t.t = "none" /\ v.t = "id" THEN ArgList(Without(subjects, v.id))
                      ELSE IF t.t = "none" THEN ArgList(subjects)
                      ELSE t
             val1 == IF t.t = "none" /\ v.t = "id" THEN ArgList(Repeat(v.id, Len(test1.l)))
                     ELSE v
         IN  IF val1.t = "none" /\ test1.t = "id"
             THEN \* line 902: len() of an int
                  [ok |-> FALSE, exc |-> "TypeError"]
             ELSE LET \* line 902: the predecessor in the list, the first taking the last
                      val2 == IF val1.t = "none"
                              THEN ArgList([i \in 1..Len(test1.l) |->
                                              test1.l[IF i = 1 THEN Len(test1.l) ELSE i - 1]])
                              ELSE val1
                  IN  IF test1.t # "list"
                      THEN [ok |-> FALSE, exc |-> "ValueError"]
                      ELSE IF val2.t = "id" /\ idkind = "int"
                      THEN \* line 904: len() of an int
                           [ok |-> FALSE, exc |-> "TypeError"]
                      ELSE LET \* a str id is iterated by character: a one-character
                               \* id gives itself, a longer one IdLen characters,
                               \* none of them an id
                               vals == IF val2.t = "id" /\ idkind = "char" THEN <<val2.id>>
                                       ELSE IF val2.t = "id" THEN Repeat(NotId, IdLen)
                                       ELSE val2.l
                           IN  IF Len(test1.l) # Len(vals)
                               THEN [ok |-> FALSE, exc |-> "ValueError"]
                               ELSE [ok |-> TRUE,
                                     pairs |-> Zip(Singletons(vals), Singletons(test1.l))]

StartGen(r) ==
    /\ gen' = IF r.ok THEN [st |-> "running"] ELSE GenError(r.exc, "", {}, NoPair)
    /\ pending' = IF r.ok THEN r.pairs ELSE <<>>

\* Dataset.loso(validation_person_id = v, test_person_id = t)
CallLoso(v, t) ==
    /\ gen.st = "idle"
    /\ call' = [fn |-> "loso", val |-> v, test |-> t]
    /\ StartGen(LosoPairs(v, t))
    /\ UNCHANGED <<subjects, idkind, ids, yielded>>

\* an id group as _generate_splits iterates it
GroupOf(a) == IF a.t = "list" THEN a.l ELSE Repeat(NotId, Len(a.g))

\* lines 945-950: calculate_from_remainder(known_split); rem is the order in
\* which list(set(...)) happens to enumerate the remaining ids
FromRemainder(folds, known, rem) ==
    IF known.t = "list" /\ folds = 0
    THEN [ok |-> FALSE, exc |-> "ValueError"]
    ELSE IF known.t = "nested" /\ known.c = "list"
    THEN \* set.difference hashes each element of known_split
         [ok |-> FALSE, exc |-> "TypeError"]
    ELSE LET k == IF known.t = "nested" THEN Len(known.g) ELSE folds
         IN  [ok |-> TRUE, other |-> ArraySplit(rem, k),
              same |-> Repeat(GroupOf(known), k)]

\* the ids list(set(self.get_thinkers()).difference(known_split)) holds
Remainder(known) ==
    IF known.t = "list" THEN Range(subjects) \ Range(known.l) ELSE Range(subjects)

\* lines 952-962: the pairs lmso hands to _generate_splits; folds = 0 is None
LmsoPairs(folds, ts, vs, rem) ==
    IF ts.t = "none" /\ vs.t = "none"
    THEN IF folds = 0
         THEN [ok |-> FALSE, exc |-> "ValueError"]
         ELSE LET f == ArraySplit(subjects, folds)
              IN  [ok |-> TRUE,
                   pairs |-> [i \in 1..folds |->
                                 [val |-> f[IF i = 1 THEN folds ELSE i - 1],
                                  test |-> f[i]]]]
    ELSE IF vs.t = "none"
    THEN LET r == FromRemainder(folds, ts, rem)
         IN  IF r.ok THEN [ok |-> TRUE, pairs |-> Zip(r.other, r.same)] ELSE r
    ELSE IF ts.t = "none"
    THEN LET r == FromRemainder(folds, vs, rem)
         IN  IF r.ok THEN [ok |-> TRUE, pairs |-> Zip(r.same, r.other)] ELSE r
    ELSE [ok |-> TRUE, pairs |-> Zip(vs.g, ts.g)]

\* Dataset.lmso(folds, test_splits = ts, validation_splits = vs)
CallLmso(folds, ts, vs, rem) ==
    /\ gen.st = "idle"
    /\ call' = [fn |-> "lmso", folds |-> folds, test |-> ts, val |-> vs]
    /\ StartGen(LmsoPairs(folds, ts, vs, rem))
    /\ UNCHANGED <<subjects, idkind, ids, yielded>>

\* a Dataset of n subjects whose get_thinkers() order is sorted (as constructed)
\* or not (after later adds)
SubjectOrders ==
    UNION {{[i \in 1..n |-> i], [i \in 1..n |-> n + 1 - i]} : n \in 1..MaxSubjects}

InitS ==
    /\ subjects \in SubjectOrders
    /\ idkind \in {"char", "str", "int"}
    /\ ids \in [dataset : BOOLEAN, task : BOOLEAN]
    /\ call = [fn |-> "none"]
    /\ pending = <<>>
    /\ yielded = <<>>
    /\ gen = [st |-> "idle"]

\* folds is read for a flat id list only (line 946)
FoldsFor(a) == IF a.t = "list" THEN 0..MaxFolds ELSE {0, MaxFolds}

\* the orders list(set(...)) may enumerate the remaining ids in; with a list
\* of lists the call fails before the order matters
RemOrders(a) ==
    IF a.t = "nested" /\ a.c = "list" THEN {<<>>} ELSE Perms(Remainder(a))

OneSideArgs == FlatArgs \cup NestedLists \cup NestedTuples

NextS ==
    \/ /\ gen.st = "idle"
       /\ \E v \in LosoArgs, t \in LosoArgs : CallLoso(v, t)
    \/ /\ gen.st = "idle"
       /\ \E f \in 0..MaxFolds : CallLmso(f, ArgNone, ArgNone, <<>>)
    \/ /\ gen.st = "idle"
       /\ \E a \in OneSideArgs : \E f \in FoldsFor(a), rem \in RemOrders(a) :
             CallLmso(f, a, ArgNone, rem)
    \/ /\ gen.st = "idle"
       /\ \E a \in OneSideArgs : \E f \in FoldsFor(a), rem \in RemOrders(a) :
             CallLmso(f, ArgNone, a, rem)
    \/ /\ gen.st = "idle"
       /\ \E a \in NestedLists, b \in NestedLists : CallLmso(MaxFolds, a, b, <<>>)
    \/ GenNext

----------------------------------------------------------------------------
\* C6: every triple yielded by loso or lmso has disjoint validation and test
\* subject sets and a training set equal to all subjects minus validation
\* minus test; and when the validation and test ids requested for a split
\* overlap, the generator fails with the error that names the overlapping ids
\* (and so the triple is not yielded).
C6_DisjointOrNamedOverlap ==
    /\ \A i \in 1..Len(yielded) :
          /\ PeopleSet(yielded[i].validation) \cap PeopleSet(yielded[i].test) = {}
          /\ PeopleSet(yielded[i].training) =
                (Range(subjects) \ PeopleSet(yielded[i].validation))
                    \ PeopleSet(yielded[i].test)
    /\ (/\ gen.st = "error"
        /\ Range(gen.pair.val) \cap Range(gen.pair.test) \cap SubjectIds # {}) =>
          /\ gen.msg = "Validation and test overlap with ids"
          /\ gen.ids = Range(gen.pair.val) \cap Range(gen.pair.test)

\* C7: loso with no explicit ids over n >= 3 subjects never fails, its i-th
\* split tests the i-th subject of get_thinkers() and validates on the
\* predecessor (the first on the last), and it ends after exactly n splits.
C7_LosoDefault ==
    (/\ call.fn = "loso"
     /\ call.val.t = "none" /\ call.test.t = "none"
     /\ Len(subjects) >= 3) =>
        /\ gen.st # "error"
        /\ \A i \in 1..Len(yielded) :
              /\ i <= Len(subjects)
              /\ yielded[i].test.people = <<subjects[i]>>
              /\ yielded[i].validation.people =
                    <<subjects[IF i = 1 THEN Len(subjects) ELSE i - 1]>>
        /\ gen.st = "done" => Len(yielded) = Len(subjects)

\* C8: lmso with K >= 2 folds and no explicit ids never fails; with the subject
\* list cut in order into K contiguous near-equal folds, split i tests fold i,
\* validates on fold i-1 (the first on the last) and trains on the rest, so
\* validation and test are disjoint and the three cover all subjects; it ends
\* after exactly K splits.
C8_LmsoDefault ==
    (/\ call.fn = "lmso"
     /\ call.val.t = "none" /\ call.test.t = "none"
     /\ call.folds >= 2) =>
        /\ gen.st # "error"
        /\ \A i \in 1..Len(yielded) :
              LET f == ArraySplit(subjects, call.folds)
                  v == PeopleSet(yielded[i].validation)
                  t == PeopleSet(yielded[i].test)
              IN  /\ i <= call.folds
                  /\ t = Range(f[i])
                  /\ v = Range(f[IF i = 1 THEN call.folds ELSE i - 1])
                  /\ v \cap t = {}
                  /\ PeopleSet(yielded[i].training) = (Range(subjects) \ v) \ t
        /\ gen.st = "done" => Len(yielded) = call.folds

\* C9: loso with one validation id and a list of N test ids, or one test id and
\* a list of N validation ids (all of them subjects of the dataset, the single
\* id not in the list), never fails, pairs the single id with the i-th item of
\* the list in its i-th split, and ends after exactly N splits.
C9_LosoBroadcast ==
    (/\ call.fn = "loso"
     /\ \/ call.val.t = "id" /\ call.test.t = "list"
        \/ call.val.t = "list" /\ call.test.t = "id"
     /\ LET single == IF call.val.t = "id" THEN call.val.id ELSE call.test.id
            lst == IF call.val.t = "id" THEN call.test.l ELSE call.val.l
        IN  /\ single \in Range(subjects)
            /\ Range(lst) \subseteq Range(subjects)
            /\ single \notin Range(lst)) =>
        LET lst == IF call.val.t = "id" THEN call.test.l ELSE call.val.l
            valOf(i) == IF call.val.t = "id" THEN call.val.id ELSE call.val.l[i]
            testOf(i) == IF call.test.t = "id" THEN call.test.id ELSE call.test.l[i]
        IN  /\ gen.st # "error"
            /\ \A i \in 1..Len(yielded) :
                  /\ i <= Len(lst)
                  /\ yielded[i].validation.people = <<valOf(i)>>
                  /\ yielded[i].test.people = <<testOf(i)>>
            /\ gen.st = "done" => Len(yielded) = Len(lst)

\* C10: lmso with ids given for one side only, as a flat list with a fold count
\* K >= 1 or nested into K groups (all of them subjects of the dataset), never
\* fails; each split uses the given side as supplied (the flat list, or the
\* i-th group) and a fold of the complement on the other side; those folds are
\* pairwise disjoint and, after the K splits it ends with, cover the complement.
C10_LmsoOneSide ==
    LET known == IF call.test.t = "none" THEN call.val ELSE call.test
        given == IF known.t = "list" THEN Range(known.l)
                 ELSE UNION {Range(known.g[i]) : i \in 1..Len(known.g)}
        K == IF known.t = "list" THEN call.folds ELSE Len(known.g)
        supplied(i) == IF known.t = "list" THEN Range(known.l) ELSE Range(known.g[i])
        givenSide(tr) == IF call.test.t = "none" THEN PeopleSet(tr.validation)
                         ELSE PeopleSet(tr.test)
        otherSide(tr) == IF call.test.t = "none" THEN PeopleSet(tr.test)
                         ELSE PeopleSet(tr.validation)
    IN  (/\ call.fn = "lmso"
         /\ (call.test.t = "none") # (call.val.t = "none")
         /\ given \subseteq Range(subjects)
         /\ K >= 1) =>
            /\ gen.st # "error"
            /\ \A i \in 1..Len(yielded) :
                  /\ i <= K
                  /\ givenSide(yielded[i]) = supplied(i)
                  /\ otherSide(yielded[i]) \subseteq Range(subjects) \ given
            /\ \A i, j \in 1..Len(yielded) :
                  i # j => otherSide(yielded[i]) \cap otherSide(yielded[j]) = {}
            /\ gen.st = "done" =>
                  /\ Len(yielded) = K
                  /\ UNION {otherSide(yielded[i]) : i \in 1..Len(yielded)} =
                        Range(subjects) \ given

----------------------------------------------------------------------------
\* C19: an __add__ under a key already present merges: on a Thinker given a
\* Recording with a held session id, and on a Dataset given a Thinker with a
\* held person id, the call does not fail, the keys are unchanged and the
\* length grows by the length of what was added.
C19_AddMerges ==
    [][\A p \in People :
        LET lens(ss) == [k \in 1..Len(ss) |-> ss[k].len]
            sids(ss) == [k \in 1..Len(ss) |-> ss[k].id]
            added == SumSeq(lens(sessions'[p])) - SumSeq(lens(sessions[p]))
        IN  /\ (res'.op = "dataset_add" /\ res'.person = p /\ p \in Range(thinkers)) =>
                  /\ res'.kind = "ok"
                  /\ thinkers' = thinkers
                  /\ Last(ds_cum') - Last(ds_cum) = added
            /\ (/\ res'.op = "thinker_add" /\ res'.person = p
                /\ nadds' = nadds + 1
                /\ sids(sessions'[p]) = sids(sessions[p])) =>
                  Last(th_cum'[p]) - Last(th_cum[p]) = added
      ]_vars

----------------------------------------------------------------------------
(* Derived partitions: Dataset._make_like_me, DN3ataset.clone, add_transform, *)
(* clear_transforms and Dataset.update_id_returns, over object identities.    *)

\* subjects of the source Dataset, operations explored after construction
NumLikePeople == 3
MaxOps == 1
\* the transforms attached in this part of the model
Transforms == {1, 2}

LikePeople == 1..NumLikePeople

\* the c-th deep copy of the Thinker (or of the Recording) of person p; 0 is the
\* object the source Dataset holds
Obj(p, c) == <<p, c>>
ThinkerObjs == LikePeople \X {0, 1}

NoThinker ==
    [live |-> FALSE, recs |-> {}, transforms |-> <<>>, session |-> FALSE, trial |-> FALSE]

Flags == [trial : BOOLEAN, session : BOOLEAN, person : BOOLEAN,
          dataset : BOOLEAN, task : BOOLEAN]

\* lines 673-677: set_ids_for_thinkers applied to the Thinker objects held
SetIdsForThinkers(t, objs, f) ==
    [o \in ThinkerObjs |->
        IF o \in Range(objs)
        THEN [t[o] EXCEPT !.session = f.session, !.trial = f.trial]
        ELSE t[o]]

\* lines 668-672: update_id_returns(trial, session, person, task, dataset);
\* an argument "None" keeps the flag, "True" / "False" set it
Keep(old, arg) == IF arg = "None" THEN old ELSE arg = "True"
UpdatedFlags(f, a) ==
    [trial |-> Keep(f.trial, a.trial), session |-> Keep(f.session, a.session),
     person |-> Keep(f.person, a.person), dataset |-> Keep(f.dataset, a.dataset),
     task |-> Keep(f.task, a.task)]

\* line 650: Dataset.__init__ passes (return_trial_id, return_session_id,
\* return_person_id, return_dataset_id, return_task_id) by position to
\* update_id_returns(trial, session, person, task, dataset)
InitFlags(kw) ==
    [trial |-> kw.trial, session |-> kw.session, person |-> kw.person,
     task |-> kw.dataset, dataset |-> kw.task]

\* lines 633-650: Dataset(thinkers, return_*_id = kw): a new object holding the
\* given Thinker objects, with its own empty transform list
NewDataset(objs, kw) ==
    [kind |-> "Dataset", thinkers |-> objs, transforms |-> <<>>, flags |-> InitFlags(kw)]

\* lines 46-56: clone() = copy.deepcopy(self): new Thinker, new Recordings
Clone(th) ==
    [th EXCEPT !.recs = {Obj(r[1], r[2] + 1) : r \in th.recs}]

NoPart == [kind |-> "none"]
NoOp == [op |-> "none", target |-> "none", n |-> 0]

InitL ==
    /\ \E kw \in Flags, xs \in {<<>>, <<1>>} :
          /\ src = [NewDataset([i \in 1..NumLikePeople |-> Obj(i, 0)], kw)
                       EXCEPT !.transforms = xs]
          /\ thk = [o \in ThinkerObjs |->
                      IF o[2] = 0
                      THEN [live |-> TRUE, recs |-> {Obj(o[1], 0)}, transforms |-> <<>>,
                            session |-> kw.session, trial |-> kw.trial]
                      ELSE NoThinker]
    /\ like = NoPart
    /\ lop = NoOp

IdleL ==
    /\ src = [kind |-> "none"]
    /\ thk = <<>>
    /\ like = NoPart
    /\ lop = NoOp

\* the people lists _make_like_me is given by a split
LikeLists ==
    {<<>>, [i \in 1..NumLikePeople |-> i]} \cup {l \in IdLists : Range(l) \subseteq LikePeople}

\* lines 822-823: dataset_id = self.dataset_id.item() if self.dataset_id is not
\* None else None; task_id = self.task_id.item() if self.dataset_id is not None
\* else None (which of the two ids the new Dataset is given)
DerivedIds(i) == [dataset |-> i.dataset, task |-> i.dataset /\ i.task]

\* lines 818-831: like_me = self._make_like_me(people), on object identities
Derive(people) ==
    /\ like.kind = "none"
    /\ LET m == MakeLikeMe(people)
           objs == [i \in 1..Len(m.people) |-> Obj(m.people[i], 0)]
       IN  IF m.kind = "error"
           THEN /\ like' = [kind |-> "error", exc |-> m.exc]
                /\ UNCHANGED thk
           ELSE IF m.kind = "Thinker"
           THEN \* the clone, then add_transform for each of the source's
                /\ thk' = [thk EXCEPT ![Obj(people[1], 1)] =
                              [Clone(thk[Obj(people[1], 0)]) EXCEPT
                                  !.transforms = @ \o src.transforms]]
                /\ like' = [kind |-> "Thinker", thinkers |-> <<Obj(people[1], 1)>>]
           ELSE \* Dataset({p: self.thinkers[p] ...}, return_*_id = self.return_*_id)
                /\ like' = [kind |-> "Dataset", thinkers |-> objs,
                             transforms |-> src.transforms,
                             flags |-> NewDataset(objs, src.flags).flags,
                             ids |-> DerivedIds(ids)]
                /\ thk' = SetIdsForThinkers(thk, objs, InitFlags(src.flags))
    /\ lop' = [lop EXCEPT !.op = "make_like_me", !.target = "source"]
    /\ UNCHANGED src

\* the object an operation is called on
IsDataset(target) == target = "source" \/ like.kind = "Dataset"
IsThinker(target) == target = "like" /\ like.kind = "Thinker"

\* lines 58-68: add_transform(transform)
AddTransform(target, x) ==
    /\ lop.n < MaxOps
    /\ IsDataset(target) \/ IsThinker(target)
    /\ IF target = "source"
       THEN src' = [src EXCEPT !.transforms = Append(@, x)] /\ UNCHANGED <<like, thk>>
       ELSE IF like.kind = "Dataset"
       THEN like' = [like EXCEPT !.transforms = Append(@, x)] /\ UNCHANGED <<src, thk>>
       ELSE /\ thk' = [thk EXCEPT ![like.thinkers[1]].transforms = Append(@, x)]
            /\ UNCHANGED <<src, like>>
    /\ lop' = [op |-> "add_transform", target |-> target, n |-> lop.n + 1]

\* lines 83-87: clear_transforms()
ClearTransforms(target) ==
    /\ lop.n < MaxOps
    /\ IsDataset(target) \/ IsThinker(target)
    /\ IF target = "source"
       THEN src' = [src EXCEPT !.transforms = <<>>] /\ UNCHANGED <<like, thk>>
       ELSE IF like.kind = "Dataset"
       THEN like' = [like EXCEPT !.transforms = <<>>] /\ UNCHANGED <<src, thk>>
       ELSE /\ thk' = [thk EXCEPT ![like.thinkers[1]].transforms = <<>>]
            /\ UNCHANGED <<src, like>>
    /\ lop' = [op |-> "clear_transforms", target |-> target, n |-> lop.n + 1]

\* the calls of update_id_returns explored: no argument, or one flag given
NoneArgs ==
    [trial |-> "None", session |-> "None", person |-> "None",
     dataset |-> "None", task |-> "None"]
UpdateArgs ==
    {NoneArgs} \cup
    {[NoneArgs EXCEPT ![k] = b] :
        k \in {"trial", "session", "person", "dataset", "task"}, b \in {"True", "False"}}

\* lines 652-677: Dataset.update_id_returns(**a)
UpdateIdReturns(target, a) ==
    /\ lop.n < MaxOps
    /\ IsDataset(target)
    /\ IF target = "source"
       THEN /\ src' = [src EXCEPT !.flags = UpdatedFlags(@, a)]
            /\ thk' = SetIdsForThinkers(thk, src.thinkers, UpdatedFlags(src.flags, a))
            /\ UNCHANGED like
       ELSE /\ like' = [like EXCEPT !.flags = UpdatedFlags(@, a)]
            /\ thk' = SetIdsForThinkers(thk, like.thinkers, UpdatedFlags(like.flags, a))
            /\ UNCHANGED src
    /\ lop' = [op |-> "update_id_returns", target |-> target, n |-> lop.n + 1]

NextL ==
    \/ \E people \in LikeLists : Derive(people)
    \/ \E target \in {"source", "like"}, x \in Transforms : AddTransform(target, x)
    \/ \E target \in {"source", "like"} : ClearTransforms(target)
    \/ \E target \in {"source", "like"}, a \in UpdateArgs : UpdateIdReturns(target, a)

\* C11: a derived partition is a single Thinker exactly when it has one subject
\* and a Dataset otherwise, and every Recording object it holds is one of the
\* Recording objects the source Dataset holds.
C11_PartitionSharesRecordings ==
    like.kind \in {"Thinker", "Dataset"} =>
        /\ (like.kind = "Thinker") <=> (Len(like.thinkers) = 1)
        /\ UNION {thk[o].recs : o \in Range(like.thinkers)}
              \subseteq UNION {thk[o].recs : o \in Range(src.thinkers)}

C12_PartitionIndependent ==
    [][LET flagsOf(t, objs) == [i \in 1..Len(objs) |-> <<t[objs[i]].session, t[objs[i]].trial>>]
           view(d, t) == IF d.kind = "Dataset"
                         THEN <<d.transforms, d.flags, flagsOf(t, d.thinkers)>>
                         ELSE <<t[d.thinkers[1]].transforms, flagsOf(t, d.thinkers)>>
       IN  (like.kind \in {"Thinker", "Dataset"} /\ lop'.n # lop.n) =>
              /\ lop'.target = "like" => view(src', thk') = view(src, thk)
              /\ lop'.target = "source" => view(like', thk') = view(like, thk)
      ]_vars

----------------------------------------------------------------------------
(* Items: the tuple Dataset.__getitem__ returns, with the identifiers the     *)
(* flags ask for and the transforms of the three levels applied.              *)

\* an element of the returned tuple; the value of an id that is None is -1
Elem(tag, v) == [tag |-> tag, v |-> v]

\* a list.append(e) in place of the insert
AppendLast(x, e) == Append(x, e)

\* list.insert(1, e)
Insert1(x, e) == <<Head(x), e>> \o Tail(x)

\* the transforms of the list called last to first
ExecuteReversed(it, level, xs) ==
    [it EXCEPT !.log = @ \o [i \in 1..Len(xs) |-> <<level, xs[Len(xs) + 1 - i]>>]]

\* lines 70-81: _execute_transforms calls each transform of the list once, in
\* list order; a transform here returns what it is given and the call is logged
ExecuteTransforms(it, level, xs) ==
    [it EXCEPT !.log = @ \o [i \in 1..Len(xs) |-> <<level, xs[i]>>]]

\* lines 251 / 313: a Recording returns (x,) or (x, y) through its own transforms
RecordingGetItem(p, s) ==
    ExecuteTransforms(
        [x |-> <<Elem("data", 0)>> \o (IF cfg.labelled THEN <<Elem("label", 0)>> ELSE <<>>),
         log |-> <<>>],
        "recording", xf.r[<<p, s>>])

\* lines 435-443: Thinker.__getitem__(item); the Thinker's flags are those the
\* Dataset wrote into it (lines 673-677, 700-701)
ThinkerItem(p, it) ==
    LET t == ThinkerGetItem(p, it)
    IN  IF t.kind # "ok" THEN [kind |-> t.kind]
        ELSE LET r == RecordingGetItem(p, sessions[p][t.session + 1].id)
                 trial_id == IF t.session_idx = 0 THEN it
                             ELSE it - th_cum[p][t.session_idx]
                 x1 == IF cfg.flags.trial THEN Insert1(r.x, Elem("trial", trial_id))
                       ELSE r.x
                 x2 == IF cfg.flags.session THEN Insert1(x1, Elem("session", t.session_idx))
                       ELSE x1
                 e == ExecuteTransforms([r EXCEPT !.x = x2], "thinker", xf.t[p])
             IN  [kind |-> "ok", x |-> e.x, log |-> e.log,
                  session |-> sessions[p][t.session + 1].id]

\* lines 713-730: Dataset.__getitem__(item)
DatasetItem(it) ==
    LET person_id == BisectRight(ds_cum, it)
        sample_idx == it - StartOf(ds_cum, person_id)
    IN  IF person_id >= Len(thinkers) THEN [kind |-> "IndexError"]
        ELSE LET t == ThinkerItem(thinkers[person_id + 1], sample_idx)
             IN  IF t.kind # "ok" THEN [kind |-> t.kind]
                 ELSE LET x1 == IF cfg.flags.person
                                THEN Insert1(t.x, Elem("person", person_id)) ELSE t.x
                          x2 == IF cfg.flags.dataset
                                THEN Insert1(x1, Elem("dataset", IF ids.dataset THEN 1 ELSE -1))
                                ELSE x1
                          x3 == IF cfg.flags.task
                                THEN Insert1(x2, Elem("task", IF ids.task THEN 1 ELSE -1))
                                ELSE x2
                          e == ExecuteTransforms([t EXCEPT !.x = x3], "dataset", xf.d)
                     IN  [kind |-> "ok", index |-> it, x |-> e.x, log |-> e.log,
                          session |-> t.session, producer |-> thinkers[person_id + 1]]

ItemGet(it) ==
    /\ fetched' = DatasetItem(it)
    /\ UNCHANGED <<cfg, xf>>

NoTransforms ==
    [d |-> <<>>, t |-> [p \in People |-> <<>>],
     r |-> [k \in People \X SessionIds |-> <<>>]]

\* Dataset(thinkers, dataset_id, task_id, return_*_id = kw) over Recordings
\* that return a label (EpochTorchRecording) or not (RawTorchRecording)
InitI ==
    /\ \E kw \in Flags, labelled \in BOOLEAN :
          cfg = [kw |-> kw, flags |-> InitFlags(kw), labelled |-> labelled]
    /\ xf = NoTransforms
    /\ fetched = [kind |-> "none"]

IdleI ==
    /\ cfg = [kw |-> "none"]
    /\ xf = <<>>
    /\ fetched = [kind |-> "none"]

\* the Thinkers items are read from: no empty Recording, MaxItems items at most
MaxItems == 2
ItemThinkers ==
    {ss \in FreshThinkers :
        /\ \A k \in 1..Len(ss) : ss[k].len >= 1
        /\ SumSeq([k \in 1..Len(ss) |-> ss[k].len]) <= MaxItems}

\* a later add of a subject, and retrievals; fetched holds the outcome of the
\* last operation when that was a retrieval
NextI ==
    \/ /\ \E p \in People, ss \in ItemThinkers : DatasetAdd(p, ss)
       /\ fetched' = [kind |-> "none"]
       /\ UNCHANGED <<cfg, xf>>
    \/ /\ \E i \in (0 - MaxLen - 1)..(TotalItems + 1) : ItemGet(i)
       /\ UNCHANGED hvars

\* C13: for every combination of the five flags the Dataset is constructed
\* with, a retrieved item is the data, then exactly the identifiers whose flag
\* was set, in the order task, dataset, person, session, trial, then the label.
C13_FlagsSelectIds ==
    fetched.kind = "ok" =>
        [i \in 1..Len(fetched.x) |-> fetched.x[i].tag] =
            <<"data">>
            \o (IF cfg.kw.task THEN <<"task">> ELSE <<>>)
            \o (IF cfg.kw.dataset THEN <<"dataset">> ELSE <<>>)
            \o (IF cfg.kw.person THEN <<"person">> ELSE <<>>)
            \o (IF cfg.kw.session THEN <<"session">> ELSE <<>>)
            \o (IF cfg.kw.trial THEN <<"trial">> ELSE <<>>)
            \o (IF cfg.labelled THEN <<"label">> ELSE <<>>)

MaxXforms == 3

\* the objects of the Dataset that take transforms: the Dataset, its Thinkers,
\* their Recordings
XformTargets ==
    {[level |-> "dataset"]}
    \cup {[level |-> "thinker", p |-> p] : p \in Range(thinkers)}
    \cup {[level |-> "recording", p |-> p, s |-> s] :
            p \in Range(thinkers), s \in SessionIds}

Attached ==
    Len(xf.d) + SumSeq([k \in 1..Len(thinkers) |-> Len(xf.t[thinkers[k]])])
    + SumSeq([k \in 1..Len(thinkers) |->
                SumSeq([j \in 1..Len(sessions[thinkers[k]]) |->
                          Len(xf.r[<<thinkers[k], sessions[thinkers[k]][j].id>>])])])

\* lines 58-68: add_transform on the Dataset, on one of its Thinkers or on one
\* of their Recordings
AttachTransform(o, x) ==
    /\ Attached < MaxXforms
    /\ o.level = "recording" => o.s \in Range(SessIds(o.p))
    /\ xf' = IF o.level = "dataset" THEN [xf EXCEPT !.d = Append(@, x)]
             ELSE IF o.level = "thinker" THEN [xf EXCEPT !.t[o.p] = Append(@, x)]
             ELSE [xf EXCEPT !.r[<<o.p, o.s>>] = Append(@, x)]
    /\ fetched' = [kind |-> "none"]
    /\ UNCHANGED cfg

\* lines 83-87: clear_transforms on the same objects
DetachTransforms(o) ==
    /\ o.level = "recording" => o.s \in Range(SessIds(o.p))
    /\ xf' = IF o.level = "dataset" THEN [xf EXCEPT !.d = <<>>]
             ELSE IF o.level = "thinker" THEN [xf EXCEPT !.t[o.p] = <<>>]
             ELSE [xf EXCEPT !.r[<<o.p, o.s>>] = <<>>]
    /\ xf' # xf
    /\ fetched' = [kind |-> "none"]
    /\ UNCHANGED cfg

NextX ==
    \/ /\ \E o \in XformTargets, x \in Transforms : AttachTransform(o, x)
       /\ UNCHANGED hvars
    \/ /\ \E o \in XformTargets : DetachTransforms(o)
       /\ UNCHANGED hvars
    \/ /\ \E i \in (0 - MaxLen - 1)..(TotalItems + 1) : ItemGet(i)
       /\ UNCHANGED hvars

\* C15: for an item retrieved through the Dataset the transforms called are,
\* in this order, those of the Recording the item came from, those of its
\* Thinker and those of the Dataset, each list in attachment order and each
\* attached transform called exactly once.
C15_TransformOrder ==
    fetched.kind = "ok" =>
        fetched.log =
            [i \in 1..Len(xf.r[<<fetched.producer, fetched.session>>]) |->
                <<"recording", xf.r[<<fetched.producer, fetched.session>>][i]>>]
            \o [i \in 1..Len(xf.t[fetched.producer]) |->
                <<"thinker", xf.t[fetched.producer][i]>>]
            \o [i \in 1..Len(xf.d) |-> <<"dataset", xf.d[i]>>]

\* two transforms on the Dataset in attachment order 2, 1 and one attached
\* last, on the Recording, which runs first
C15_Witness ==
    /\ fetched.kind = "ok"
    /\ fetched.log = <<<<"recording", 1>>, <<"dataset", 2>>, <<"dataset", 1>>>>

----------------------------------------------------------------------------
(* Property queries: sfreq, channels and sequence_length of a Recording, a    *)
(* Thinker and a Dataset.                                                     *)

\* what a Recording is constructed with: info['sfreq'], its length in samples
\* and its picked channel names (all of one kind)
Profiles ==
    {[sfreq |-> 1, len |-> 4, chs |-> <<"C3", "C4">>],
     [sfreq |-> 2, len |-> 2, chs |-> <<"C3", "C4">>],
     [sfreq |-> 1, len |-> 4, chs |-> <<"C3", "Cz">>],
     [sfreq |-> 1, len |-> 4, chs |-> <<"C3">>]}

\* the transforms attached here, by their declared effects
TransformKinds == {"half", "inc", "rate2", "pick1"}

\* BaseTransform.new_sequence_length / new_sfreq / new_channels of each kind
NewSequenceLength(k, n) ==
    IF k = "half" THEN n \div 2 ELSE IF k = "inc" THEN n + 1 ELSE n
NewSfreq(k, r) == IF k = "rate2" THEN 2 * r ELSE r
NewChannels(k, c) == IF k = "pick1" THEN <<c[1]>> ELSE c

\* the value of a numeric property: one number, or the aggregate unfurl returns
Scalar(n) == [kind |-> "ok", agg |-> FALSE, set |-> {n}]
Failed(exc) == [kind |-> exc, agg |-> FALSE, set |-> {}]

\* dn3.utils.unfurl over a set of child values: one flat aggregate of them
Unfurl(vals) == [kind |-> "ok", agg |-> TRUE, set |-> UNION {v.set : v \in vals}]

\* for xform in self._transforms: value = xform.new_<prop>(value); the
\* arithmetic of a declared effect fails on an aggregate
RECURSIVE FoldDeclared(_, _, _)
FoldDeclared(prop, val, xs) ==
    IF xs = <<>> \/ val.kind # "ok" THEN val
    ELSE LET k == Head(xs)
             n == CHOOSE m \in val.set : TRUE
             out == IF prop = "sfreq" THEN NewSfreq(k, n) ELSE NewSequenceLength(k, n)
             changes == IF prop = "sfreq" THEN k = "rate2" ELSE k \in {"half", "inc"}
         IN  IF val.agg
             THEN FoldDeclared(prop, IF changes THEN Failed("TypeError") ELSE val, Tail(xs))
             ELSE FoldDeclared(prop, Scalar(out), Tail(xs))

RECURSIVE FoldChannels(_, _)
FoldChannels(c, xs) ==
    IF xs = <<>> THEN c ELSE FoldChannels(NewChannels(Head(xs), c), Tail(xs))

\* lines 130-149: the properties of a Recording
RecordingSfreq(r) == FoldDeclared("sfreq", Scalar(r.p.sfreq), r.xf)
RecordingChannels(r) == [kind |-> "ok", chs |-> FoldChannels(r.p.chs, r.xf)]
RecordingSequenceLength(r) == FoldDeclared("sequence_length", Scalar(r.p.len), r.xf)

\* the query returns one popped value on which the transforms are folded
PopFold(vals, prop, xs) ==
    IF \E v \in vals : v.kind # "ok"
    THEN Failed((CHOOSE v \in vals : v.kind # "ok").kind)
    ELSE FoldDeclared(prop, CHOOSE v \in vals : TRUE, xs)

\* lines 391-398 and alike: the set of the children's values; more than one
\* gives unfurl of the set, one gives that value with new_<prop> folded over it
SoftFold(vals, prop, xs) ==
    IF \E v \in vals : v.kind # "ok"
    THEN Failed((CHOOSE v \in vals : v.kind # "ok").kind)
    ELSE IF Cardinality(vals) > 1 THEN Unfurl(vals)
    ELSE FoldDeclared(prop, CHOOSE v \in vals : TRUE, xs)

\* lines 152-159: only the shapes (channel count, 2) are compared
SameChannelSets(chans) ==
    \A i \in 2..Len(chans) : Len(chans[i]) = Len(chans[1])

ChannelsOk(c) == [kind |-> "ok", chs |-> c]
ChannelsFailed(exc) == [kind |-> exc, chs |-> <<>>]

\* channels = channels.pop(), the last child's layout, when the check passed
LastLayout(outs) ==
    IF \E i \in 1..Len(outs) : outs[i].kind # "ok"
    THEN ChannelsFailed(outs[CHOOSE i \in 1..Len(outs) : outs[i].kind # "ok"].kind)
    ELSE IF ~SameChannelSets([i \in 1..Len(outs) |-> outs[i].chs])
    THEN ChannelsFailed("ValueError")
    ELSE outs[Len(outs)]

\* lines 389-398
ThinkerSfreq(t) ==
    SoftFold({RecordingSfreq(t.recs[j]) : j \in 1..Len(t.recs)}, "sfreq", t.xf)

\* lines 400-408: new_sfreq, not new_channels, is folded over the layout; the
\* arithmetic of a changed sampling rate fails on an array of names
ThinkerChannels(t) ==
    LET last == LastLayout([j \in 1..Len(t.recs) |-> RecordingChannels(t.recs[j])])
    IN  IF last.kind = "ok" /\ \E i \in 1..Len(t.xf) : t.xf[i] = "rate2"
        THEN ChannelsFailed("TypeError")
        ELSE last

\* lines 410-419: new_sfreq, not new_sequence_length, is folded over the length
ThinkerSequenceLength(t) ==
    SoftFold({RecordingSequenceLength(t.recs[j]) : j \in 1..Len(t.recs)},
             "sfreq", t.xf)

\* lines 760-768
DatasetSfreq(d) ==
    SoftFold({ThinkerSfreq(d.ths[k]) : k \in 1..Len(d.ths)}, "sfreq", d.xf)

\* lines 770-778
DatasetChannels(d) ==
    LET last == LastLayout([k \in 1..Len(d.ths) |-> ThinkerChannels(d.ths[k])])
    IN  IF last.kind = "ok" THEN ChannelsOk(FoldChannels(last.chs, d.xf)) ELSE last

\* lines 780-790
DatasetSequenceLength(d) ==
    SoftFold({ThinkerSequenceLength(d.ths[k]) : k \in 1..Len(d.ths)},
             "sequence_length", d.xf)

\* the entities of the Dataset: itself, its Thinkers and their Recordings
Entities(d) ==
    {[e |-> "dataset", k |-> 0, j |-> 0]}
    \cup {[e |-> "thinker", k |-> k, j |-> 0] : k \in 1..Len(d.ths)}
    \cup UNION {{[e |-> "recording", k |-> k, j |-> j] : j \in 1..Len(d.ths[k].recs)}
                : k \in 1..Len(d.ths)}

NumericProps == {"sfreq", "sequence_length"}

\* the numeric property prop of entity en
NumericOf(d, en, prop) ==
    IF en.e = "dataset"
    THEN IF prop = "sfreq" THEN DatasetSfreq(d) ELSE DatasetSequenceLength(d)
    ELSE IF en.e = "thinker"
    THEN IF prop = "sfreq" THEN ThinkerSfreq(d.ths[en.k])
         ELSE ThinkerSequenceLength(d.ths[en.k])
    ELSE IF prop = "sfreq" THEN RecordingSfreq(d.ths[en.k].recs[en.j])
         ELSE RecordingSequenceLength(d.ths[en.k].recs[en.j])

ChannelsOf(d, en) ==
    IF en.e = "dataset" THEN DatasetChannels(d)
    ELSE IF en.e = "thinker" THEN ThinkerChannels(d.ths[en.k])
    ELSE RecordingChannels(d.ths[en.k].recs[en.j])

\* the children of an entity and the transforms attached to it
ChildrenOf(d, en) ==
    IF en.e = "dataset"
    THEN {[e |-> "thinker", k |-> k, j |-> 0] : k \in 1..Len(d.ths)}
    ELSE IF en.e = "thinker"
    THEN {[e |-> "recording", k |-> en.k, j |-> j] : j \in 1..Len(d.ths[en.k].recs)}
    ELSE {}
AttachedTo(d, en) ==
    IF en.e = "dataset" THEN d.xf
    ELSE IF en.e = "thinker" THEN d.ths[en.k].xf
    ELSE d.ths[en.k].recs[en.j].xf

NoQuery == [prop |-> "none", en |-> [e |-> "none", k |-> 0, j |-> 0],
            num |-> Failed("none"), chans |-> ChannelsFailed("none")]

\* reading entity.sfreq, entity.sequence_length or entity.channels
QueryNumeric(en, prop) ==
    /\ asked' = [prop |-> prop, en |-> en, num |-> NumericOf(tree, en, prop),
                 chans |-> ChannelsFailed("none")]
    /\ UNCHANGED tree
QueryChannels(en) ==
    /\ asked' = [prop |-> "channels", en |-> en, num |-> Failed("none"),
                 chans |-> ChannelsOf(tree, en)]
    /\ UNCHANGED tree

MaxAttached == 2

NumAttached(d) ==
    LET RECURSIVE Sum(_, _)
        Sum(f, n) == IF n = 0 THEN 0 ELSE f[n] + Sum(f, n - 1)
        perThinker == [k \in 1..Len(d.ths) |->
            Len(d.ths[k].xf)
            + Sum([j \in 1..Len(d.ths[k].recs) |-> Len(d.ths[k].recs[j].xf)],
                  Len(d.ths[k].recs))]
    IN  Len(d.xf) + Sum(perThinker, Len(d.ths))

\* lines 58-68: entity.add_transform(x) appends to the entity's own list
AttachDeclared(en, x) ==
    /\ tree' =
         IF en.e = "dataset" THEN [tree EXCEPT !.xf = Append(@, x)]
         ELSE IF en.e = "thinker" THEN [tree EXCEPT !.ths[en.k].xf = Append(@, x)]
         ELSE [tree EXCEPT !.ths[en.k].recs[en.j].xf = Append(@, x)]
    /\ asked' = NoQuery

Rec(p) == [p |-> p, xf |-> <<>>]
Thk(recs) == [recs |-> recs, xf |-> <<>>]

\* Datasets of two Thinkers, of two and of one Recording
Trees ==
    {[ths |-> <<Thk(<<Rec(a), Rec(b)>>), Thk(<<Rec(c)>>)>>, xf |-> <<>>]
        : a \in Profiles, b \in Profiles, c \in Profiles}
\* those whose Recordings were all loaded alike
UniformTrees ==
    {[ths |-> <<Thk(<<Rec(a), Rec(a)>>), Thk(<<Rec(a)>>)>>, xf |-> <<>>]
        : a \in Profiles}

IdleP == tree = [ths |-> <<>>, xf |-> <<>>] /\ asked = NoQuery
InitFold == tree \in UniformTrees /\ asked = NoQuery
InitMixed == tree \in Trees /\ asked = NoQuery

NextQuery ==
    \E en \in Entities(tree) :
        \/ \E prop \in NumericProps : QueryNumeric(en, prop)
        \/ QueryChannels(en)
NextAttach ==
    /\ NumAttached(tree) < MaxAttached
    /\ \E en \in Entities(tree), x \in TransformKinds : AttachDeclared(en, x)

\* the values the children of the asked entity report for a numeric property
\* (for a Recording: the value it was loaded with)
ChildValues(d, en, prop) ==
    IF en.e = "recording"
    THEN {Scalar(IF prop = "sfreq" THEN d.ths[en.k].recs[en.j].p.sfreq
                 ELSE d.ths[en.k].recs[en.j].p.len)}
    ELSE {NumericOf(d, c, prop) : c \in ChildrenOf(d, en)}
ChildLayouts(d, en) ==
    IF en.e = "recording"
    THEN {ChannelsOk(d.ths[en.k].recs[en.j].p.chs)}
    ELSE {ChannelsOf(d, c) : c \in ChildrenOf(d, en)}

\* C16: on a Recording, a Thinker and a Dataset alike, a property equals the
\* children's common value with the matching declared effect of every
\* transform attached to the entity folded over it in attachment order:
\* new_sequence_length for sequence_length, new_sfreq for sfreq, new_channels
\* for channels.
C16_PropertiesFoldDeclaredEffects ==
    /\ asked.prop \in NumericProps =>
         LET kids == ChildValues(tree, asked.en, asked.prop)
         IN  (Cardinality(kids) = 1 /\ \A v \in kids : v.kind = "ok" /\ ~v.agg)
             => asked.num = FoldDeclared(asked.prop, CHOOSE v \in kids : TRUE,
                                         AttachedTo(tree, asked.en))
    /\ asked.prop = "channels" =>
         LET kids == ChildLayouts(tree, asked.en)
         IN  (Cardinality(kids) = 1 /\ \A v \in kids : v.kind = "ok")
             => asked.chans = ChannelsOk(FoldChannels((CHOOSE v \in kids : TRUE).chs,
                                                      AttachedTo(tree, asked.en)))

\* C17: the channels of a Thinker or Dataset whose children do not all report
\* exactly the same layout (same ordered names, not only the same count) is a
\* hard error and no layout.
C17_LayoutMismatchIsError ==
    (/\ asked.prop = "channels"
     /\ asked.en.e \in {"thinker", "dataset"}
     /\ Cardinality(ChildLayouts(tree, asked.en)) > 1)
    => asked.chans.kind = "ValueError"

----------------------------------------------------------------------------
(* Thinker.split: explicit session ids, then the rest divided by fraction.    *)

NumSplitSessions == 3
MaxSessLen == 2

SplitSessionIds == 1..NumSplitSessions

\* the items (session, trial) of a set of sessions
SessionItems(lens, ss) ==
    {it \in ss \X (1..MaxSessLen) : it[2] <= lens[it[1]]}

NonePart == [none |-> TRUE, items |-> {}]
SomePart(items) == [none |-> FALSE, items |-> items]

\* dn3.utils.rand_split(dataset, frac): the two random parts of the dataset
RandSplit(items) == {<<a, items \ a>> : a \in SUBSET items}

IdleSplit(lens) ==
    [pc |-> "idle", lens |-> lens, tr |-> {}, va |-> {}, te |-> {}, vfrac |-> 0,
     training |-> NonePart, validating |-> NonePart, testing |-> NonePart,
     exc |-> "none"]

\* lines 484-514 after the random draws: first (a, b) is the result of the
\* rand_split for testing, second that for validation
ThinkerSplitOutcome(t, tr, va, te, vfrac, first, second) ==
    LET named == [pc |-> "returned", lens |-> t.lens, tr |-> tr, va |-> va,
                  te |-> te, vfrac |-> vfrac,
                  training |-> IF tr = {} THEN NonePart
                               ELSE SomePart(SessionItems(t.lens, tr)),
                  validating |-> IF va = {} THEN NonePart
                                 ELSE SomePart(SessionItems(t.lens, va)),
                  testing |-> IF te = {} THEN NonePart
                              ELSE SomePart(SessionItems(t.lens, te)),
                  exc |-> "none"]
        left == SplitSessionIds \ (tr \cup va \cup te)
        rem0 == SessionItems(t.lens, left)
        rem1 == IF te = {} THEN first[1] ELSE rem0
        testing == IF te = {} THEN SomePart(first[2]) ELSE named.testing
        carve == va = {} /\ vfrac > 0
        rem2 == IF carve THEN second[2] ELSE rem1
        validating == IF carve THEN SomePart(second[1]) ELSE named.validating
    IN  IF (tr \cap va) \cup (tr \cap te) \cup (va \cap te) # {}
        THEN \* use_sessions.pop(s_id) of an id already popped
             [IdleSplit(t.lens) EXCEPT !.pc = "raised", !.tr = tr, !.va = va,
                                       !.te = te, !.vfrac = vfrac,
                                       !.exc = "KeyError"]
        ELSE IF tr # {} /\ va # {} /\ te # {} THEN named
        ELSE IF left = {}
        THEN IF tr = {}
             THEN \* training = remainder, and remainder was never assigned
                  [named EXCEPT !.pc = "raised", !.exc = "UnboundLocalError"]
             ELSE named
        ELSE [named EXCEPT !.testing = testing, !.validating = validating,
                           !.training = IF tr = {} THEN SomePart(rem2) ELSE @]

\* thinker.split(training_sess_ids, validation_sess_ids, testing_sess_ids,
\*               validation_frac=vfrac)
ThinkerSplit(tr, va, te, vfrac) ==
    LET left == SplitSessionIds \ (tr \cup va \cup te)
        rem0 == SessionItems(tsplit.lens, left)
    IN  \E first \in (IF te = {} THEN RandSplit(rem0) ELSE {<<rem0, {}>>}) :
            \E second \in (IF va = {} /\ vfrac > 0 THEN RandSplit(first[1])
                           ELSE {<<{}, first[1]>>}) :
                tsplit' = ThinkerSplitOutcome(tsplit, tr, va, te, vfrac, first, second)

IdleT == tsplit = IdleSplit([s \in SplitSessionIds |-> 1])
InitT == \E lens \in [SplitSessionIds -> 1..MaxSessLen] : tsplit = IdleSplit(lens)

NextT ==
    /\ tsplit.pc = "idle"
    /\ \E tr \in SUBSET SplitSessionIds, va \in SUBSET SplitSessionIds,
          te \in SUBSET SplitSessionIds, vfrac \in 0..1 :
            ThinkerSplit(tr, va, te, vfrac)

\* C20: a session named in an explicit id set goes to that partition only;
\* unless all three id sets were given, every item of every session of the
\* Thinker is in exactly one of the three returned partitions; and the call
\* returns for every assignment of explicit id sets.
C20_ThinkerSplitCoversAll ==
    tsplit.pc # "idle" =>
        LET all == SessionItems(tsplit.lens, SplitSessionIds)
            tr == tsplit.training.items
            va == tsplit.validating.items
            te == tsplit.testing.items
        IN  /\ tsplit.pc = "returned"
            /\ SessionItems(tsplit.lens, tsplit.tr) \subseteq tr \ (va \cup te)
            /\ SessionItems(tsplit.lens, tsplit.va) \subseteq va \ (tr \cup te)
            /\ SessionItems(tsplit.lens, tsplit.te) \subseteq te \ (tr \cup va)
            /\ ~(tsplit.tr # {} /\ tsplit.va # {} /\ tsplit.te # {}) =>
                 /\ tr \cup va \cup te = all
                 /\ tr \cap va = {} /\ tr \cap te = {} /\ va \cap te = {}

----------------------------------------------------------------------------
(* The ids stored on Recordings and Thinkers: Thinker.__init__,               *)
(* Thinker.__add__, Dataset.__add__ and the two _reset_dataset.               *)

MaxIdAdds == 2

\* a Recording as constructed, with its own session_id and person_id
IdRecordings == [session_id : SessionIds, person_id : People]

\* a child of a Thinker: a _Recording (plain), or the ConcatDataset that
\* self.sessions[id] += recording leaves, over the Recordings it chains
Slot(key, rec) == [key |-> key, plain |-> TRUE, members |-> <<rec>>]

\* lines 380-383, Thinker._reset_dataset: self.sessions[_id].session_id = _id,
\* an attribute of the child itself (of a ConcatDataset, not of its members)
ThinkerReset(slots) ==
    [k \in 1..Len(slots) |->
        IF slots[k].plain
        THEN [slots[k] EXCEPT !.members[1].session_id = slots[k].key]
        ELSE slots[k]]

\* lines 421-433: Thinker.__add__(recording)
ThinkerAddRecording(th, rec) ==
    LET k == IndexOf([j \in 1..Len(th.slots) |-> th.slots[j].key], rec.session_id)
        slots == IF k > 0
                 THEN [th.slots EXCEPT ![k] = [key |-> @.key, plain |-> FALSE,
                                               members |-> Append(@.members, rec)]]
                 ELSE Append(th.slots, Slot(rec.session_id, rec))
    IN  [th EXCEPT !.slots = ThinkerReset(slots)]

\* the most frequent person id of a list, any of them on a tie
Modes(pids) ==
    LET count(x) == Cardinality({k \in 1..Len(pids) : pids[k] = x})
    IN  {x \in Range(pids) : \A y \in Range(pids) : count(y) <= count(x)}

\* lines 360-378: Thinker(recordings, person_id), the recordings of distinct
\* session ids; person_id 0 stands for "auto", pick one of the modes
NewThinker(recs, person_id, pick) ==
    LET RECURSIVE AddAll(_, _)
        AddAll(th, rs) == IF rs = <<>> THEN th
                          ELSE AddAll(ThinkerAddRecording(th, Head(rs)), Tail(rs))
        added == AddAll([person_id |-> 0, slots |-> <<>>], recs)
        pid == IF person_id = 0 THEN pick ELSE person_id
    IN  [person_id |-> pid,
         slots |-> ThinkerReset(
             [k \in 1..Len(added.slots) |->
                 [added.slots[k] EXCEPT !.members[1].person_id = pid]])]

\* lines 679-685, Dataset._reset_dataset
DatasetReset(d) ==
    [d EXCEPT !.ths =
        [k \in 1..Len(d.ths) |->
            [person_id |-> d.keys[k],
             slots |-> [j \in 1..Len(d.ths[k].slots) |->
                 LET sl == d.ths[k].slots[j]
                 IN  IF sl.plain
                     THEN [sl EXCEPT !.members[1].session_id = sl.key,
                                     !.members[1].person_id = d.keys[k]]
                     ELSE sl]]]]

\* lines 697-711: Dataset.__add__(thinker, person_id) for a key not yet held;
\* person_id 0 stands for None
DatasetAddThinker(d, th, person_id) ==
    LET key == IF person_id = 0 THEN th.person_id ELSE person_id
    IN  DatasetReset([keys |-> Append(d.keys, key), ths |-> Append(d.ths, th)])

\* the lists of Recordings a Thinker is constructed from
IdRecordingLists ==
    {rs \in UNION {[1..k -> IdRecordings] : k \in 1..2} :
        \A i, j \in 1..Len(rs) : i # j => rs[i].session_id # rs[j].session_id}

\* the Thinkers that can be constructed
IdThinkers ==
    UNION {{NewThinker(rs, pid, pick) :
                pick \in (IF pid = 0 THEN Modes([k \in 1..Len(rs) |-> rs[k].person_id])
                          ELSE {pid})}
           : rs \in IdRecordingLists, pid \in {0} \cup People}

NoHeld == [keys |-> <<>>, ths |-> <<>>, adds |-> 0, last |-> "none"]

\* Dataset([thinker]) or Dataset({key: thinker})
InitO ==
    \E th \in IdThinkers, key \in {0} \cup People :
        LET d == DatasetAddThinker(NoHeld, th, key)
        IN  held = [keys |-> d.keys, ths |-> d.ths, adds |-> 0, last |-> "init"]

IdleO == held = NoHeld

\* dataset.thinkers[key].__add__(rec), the Dataset not involved
HeldThinkerAdd(k, rec) ==
    /\ held.adds < MaxIdAdds
    /\ held' = [held EXCEPT !.ths[k] = ThinkerAddRecording(@, rec),
                            !.adds = @ + 1, !.last = "thinker_add"]

\* dataset.__add__(thinker, person_id) with a new key
HeldDatasetAdd(th, person_id) ==
    /\ held.adds < MaxIdAdds
    /\ (IF person_id = 0 THEN th.person_id ELSE person_id) \notin Range(held.keys)
    /\ LET d == DatasetAddThinker(held, th, person_id)
       IN  held' = [keys |-> d.keys, ths |-> d.ths, adds |-> held.adds + 1,
                    last |-> "dataset_add"]

NextO ==
    \/ \E k \in 1..Len(held.ths), rec \in IdRecordings : HeldThinkerAdd(k, rec)
    \/ \E th \in IdThinkers, person_id \in {0} \cup People : HeldDatasetAdd(th, person_id)

\* C28: after construction and after every add on a Thinker or on the Dataset,
\* every Recording's session_id is the key under which its Thinker holds it,
\* its person_id is the person_id of that Thinker, and every Thinker's
\* person_id is the key under which the Dataset holds it.
C28_IdsMatchKeys ==
    \A k \in 1..Len(held.ths) :
        /\ held.ths[k].person_id = held.keys[k]
        /\ \A j \in 1..Len(held.ths[k].slots) :
               \A m \in 1..Len(held.ths[k].slots[j].members) :
                   /\ held.ths[k].slots[j].members[m].session_id = held.ths[k].slots[j].key
                   /\ held.ths[k].slots[j].members[m].person_id = held.ths[k].person_id

----------------------------------------------------------------------------
(* EpochTorchRecording: trials, the per-trial cache, the label mapping.       *)

MaxTrials == 2
MaxReplaced == 1

\* the event codes of the trials
EventCodes == {2, 5, 7}
\* force_label: NoLabel stands for None
NoLabel == 0 - 1
ForcedLabel == 9

\* the data of trial k (1-based) of the g-th trial set the Recording was given
TrialData(g, k) == <<g, k>>
\* an empty slot of the cache (None)
NoData == <<>>

\* lines 286-287: reverse_mapping = {v: k ...}; epoch_codes_to_class_labels =
\* {v: i for i, v in enumerate(sorted(reverse_mapping.keys()))}
ClassLabels(codes) ==
    LET sorted == IF codes = {} THEN <<>> ELSE SortedSeq(codes)
    IN  [v \in codes |-> IndexOf(sorted, v) - 1]

\* lines 263-287: EpochTorchRecording(epochs, force_label, cached, event_mapping)
\* trials: per trial, whether get_data gives a well-formed array, and its code
NewEpochRecording(trials, force, cached, codes) ==
    [trials |-> trials, set |-> 0,
     cache |-> [k \in 1..Len(trials) |-> NoData], cached |-> cached,
     force |-> force, labels |-> ClassLabels(codes), ntransforms |-> 0]

\* the cache with slot pos left as it was and its neighbour written instead
CacheStoreNeighbour(cache, pos, x) ==
    [cache EXCEPT ![(pos % Len(cache)) + 1] = x]

\* line 302: self._cache[index] = x
CacheStore(cache, pos, x) == [cache EXCEPT ![pos] = x]

\* lines 306-307: the label of the trial at pos
EpochLabel(r, pos) ==
    IF r.force # NoLabel THEN [kind |-> "ok", y |-> r.force]
    ELSE IF r.trials[pos].code \notin DOMAIN r.labels
    THEN [kind |-> "KeyError", y |-> NoLabel]
    ELSE [kind |-> "ok", y |-> r.labels[r.trials[pos].code]]

\* lines 289-309: __getitem__(index); a malformed trial makes it call itself
\* with index - 1, and self.epochs[index] refuses an index below -len
RECURSIVE EpochGetItem(_, _)
EpochGetItem(r, index) ==
    LET n == Len(r.trials)
        pos == (IF index < 0 THEN index + n ELSE index) + 1
    IN  IF index >= n \/ index < 0 - n
        THEN [kind |-> "IndexError", x |-> NoData, y |-> NoLabel, pos |-> 0,
              cache |-> r.cache]
        ELSE IF ~r.cached \/ r.cache[pos] = NoData
        THEN IF ~r.trials[pos].ok
             THEN EpochGetItem(r, index - 1)
             ELSE LET lab == EpochLabel(r, pos)
                  IN  [kind |-> lab.kind,
                       x |-> IF lab.kind = "ok" THEN TrialData(r.set, pos) ELSE NoData,
                       y |-> lab.y, pos |-> pos,
                       cache |-> IF r.cached
                                 THEN CacheStore(r.cache, pos, TrialData(r.set, pos))
                                 ELSE r.cache]
        ELSE LET lab == EpochLabel(r, pos)
             IN  [kind |-> lab.kind,
                  x |-> IF lab.kind = "ok" THEN r.cache[pos] ELSE NoData,
                  y |-> lab.y, pos |-> pos, cache |-> r.cache]

NoEpochOut == [op |-> "none", i |-> 0, kind |-> "none", x |-> NoData,
               y |-> NoLabel, pos |-> 0]

\* recording[i]
EpochGet(i) ==
    /\ LET g == EpochGetItem(erec, i)
       IN  /\ eout' = [op |-> "get", i |-> i, kind |-> g.kind, x |-> g.x,
                       y |-> g.y, pos |-> g.pos]
           /\ erec' = [erec EXCEPT !.cache = g.cache]
    /\ UNCHANGED rd

\* lines 314-317: preprocess(preprocessor, apply_transform): self.epochs is
\* replaced by what the preprocessor returns, here the same trials with new data
EpochPreprocess(apply_transform) ==
    /\ erec.set < MaxReplaced
    /\ erec' = [erec EXCEPT !.set = @ + 1,
                            !.ntransforms = IF apply_transform THEN @ + 1 ELSE @]
    /\ eout' = [NoEpochOut EXCEPT !.op = "preprocess"]
    /\ UNCHANGED rd

TrialLists ==
    UNION {[1..n -> [ok : BOOLEAN, code : EventCodes]] : n \in 1..MaxTrials}

NoReaders == [calls |-> 0, at |-> <<>>]

\* event_mapping: given with any codes, or epochs.event_id, which names at least
\* the codes of the trials
InitE ==
    /\ \E trials \in TrialLists, force \in {NoLabel, ForcedLabel},
          cached \in BOOLEAN, codes \in SUBSET EventCodes :
          /\ codes # {}
          /\ erec = NewEpochRecording(trials, force, cached, codes)
    /\ eout = NoEpochOut
    /\ rd = NoReaders

IdleE ==
    /\ erec = NewEpochRecording(<<>>, NoLabel, FALSE, {})
    /\ eout = NoEpochOut
    /\ rd = NoReaders

NextE ==
    \/ \E i \in 0..(Len(erec.trials) - 1) : EpochGet(i)
    \/ \E apply_transform \in BOOLEAN : EpochPreprocess(apply_transform)

\* the nearest well-formed trial before position pos (1-based), 0 when none
PrecedingWellFormed(trials, pos) ==
    LET c == {k \in 1..(pos - 1) : trials[k].ok}
    IN  IF c = {} THEN 0 ELSE CHOOSE k \in c : \A j \in c : j <= k

\* C21: recording[i] with a valid index always returns a (trial, label): that
\* of trial i when it is well-formed, and when it is malformed that of the
\* nearest preceding well-formed trial, for every i including 0 and for every
\* pattern of malformed trials.
C21_MalformedFallsBack ==
    (eout.op = "get" /\ eout.kind # "KeyError") =>
        /\ eout.kind = "ok"
        /\ IF erec.trials[eout.i + 1].ok
           THEN eout.pos = eout.i + 1
           ELSE /\ PrecedingWellFormed(erec.trials, eout.i + 1) # 0
                /\ eout.pos = PrecedingWellFormed(erec.trials, eout.i + 1)
        /\ eout.x[2] = eout.pos

\* C24: the label mapping maps the k distinct event codes one-to-one onto
\* 0..k-1 in increasing code order, is defined for the event code of every
\* trial, and the label of recording[i] is the override label when one is
\* configured and otherwise the mapping applied to the trial's event code.
C24_LabelMapping ==
    /\ \A c, d \in DOMAIN erec.labels : c < d => erec.labels[c] < erec.labels[d]
    /\ {erec.labels[c] : c \in DOMAIN erec.labels}
          = 0..(Cardinality(DOMAIN erec.labels) - 1)
    /\ \A k \in 1..Len(erec.trials) : erec.trials[k].code \in DOMAIN erec.labels
    /\ (eout.op = "get" /\ erec.trials[eout.i + 1].ok) =>
          /\ eout.kind = "ok"
          /\ eout.y = IF erec.force # NoLabel THEN erec.force
                      ELSE erec.labels[erec.trials[eout.i + 1].code]

\* C27: with the cache enabled, recording[i] after preprocess has replaced the
\* trial set returns the data of the current trial set, as an uncached
\* Recording would, not a value cached before the replacement.
C27_CacheFollowsReplacement ==
    (eout.op = "get" /\ eout.kind = "ok") =>
        eout.x = EpochGetItem([erec EXCEPT !.cached = FALSE], eout.i).x

----------------------------------------------------------------------------
(* Concurrent readers of one EpochTorchRecording: each __getitem__ call is    *)
(* split where another reader can run between its steps: the cache check      *)
(* (line 292), the fetch (line 294), the cache write (line 302), the return.  *)

Readers == {1, 2}
MaxReads == 3

ReaderIdle == [pc |-> "idle", i |-> 0, idx |-> 0, x |-> NoData,
               kind |-> "none", y |-> NoLabel]

\* 1-based position of a Python index
PosOf(r, index) == (IF index < 0 THEN index + Len(r.trials) ELSE index) + 1

\* a reader calls recording[i]
ReaderCall(r, i) ==
    /\ rd.calls < MaxReads
    /\ rd.at[r].pc \in {"idle", "done"}
    /\ rd' = [calls |-> rd.calls + 1,
              at |-> [rd.at EXCEPT ![r] = [ReaderIdle EXCEPT !.pc = "check",
                                                             !.i = i, !.idx = i]]]
    /\ UNCHANGED <<erec, eout>>

\* lines 290-292 and 303-304: ep = self.epochs[index], then the cache check
ReaderCheck(r) ==
    /\ rd.at[r].pc = "check"
    /\ LET me == rd.at[r]
           n == Len(erec.trials)
       IN  rd' = [rd EXCEPT !.at[r] =
               IF me.idx >= n \/ me.idx < 0 - n
               THEN [me EXCEPT !.pc = "done", !.kind = "IndexError"]
               ELSE IF ~erec.cached \/ erec.cache[PosOf(erec, me.idx)] = NoData
               THEN [me EXCEPT !.pc = "fetch"]
               ELSE [me EXCEPT !.pc = "label", !.x = erec.cache[PosOf(erec, me.idx)]]]
    /\ UNCHANGED <<erec, eout>>

\* lines 294-300: x = ep.get_data(...); a malformed trial restarts at index - 1
ReaderFetch(r) ==
    /\ rd.at[r].pc = "fetch"
    /\ LET me == rd.at[r]
           pos == PosOf(erec, me.idx)
       IN  rd' = [rd EXCEPT !.at[r] =
               IF ~erec.trials[pos].ok
               THEN [me EXCEPT !.pc = "check", !.idx = @ - 1]
               ELSE [me EXCEPT !.pc = IF erec.cached THEN "write" ELSE "label",
                               !.x = TrialData(erec.set, pos)]]
    /\ UNCHANGED <<erec, eout>>

\* lines 301-302: self._cache[index] = x
ReaderWrite(r) ==
    /\ rd.at[r].pc = "write"
    /\ erec' = [erec EXCEPT !.cache = CacheStore(@, PosOf(erec, rd.at[r].idx), rd.at[r].x)]
    /\ rd' = [rd EXCEPT !.at[r].pc = "label"]
    /\ UNCHANGED eout

\* lines 306-309: the label, and the return
ReaderReturn(r) ==
    /\ rd.at[r].pc = "label"
    /\ LET lab == EpochLabel(erec, PosOf(erec, rd.at[r].idx))
       IN  rd' = [rd EXCEPT !.at[r] =
               [@ EXCEPT !.pc = "done", !.kind = lab.kind, !.y = lab.y,
                         !.x = IF lab.kind = "ok" THEN @ ELSE NoData]]
    /\ UNCHANGED <<erec, eout>>

\* Recordings read concurrently: labels from epochs.event_id, no mutation
InitReadersE ==
    /\ \E trials \in TrialLists, cached \in BOOLEAN :
          erec = NewEpochRecording(trials, NoLabel, cached, EventCodes)
    /\ eout = NoEpochOut
    /\ rd = [calls |-> 0, at |-> [r \in Readers |-> ReaderIdle]]

NextReadersE ==
    \E r \in Readers :
        \/ \E i \in 0..(Len(erec.trials) - 1) : ReaderCall(r, i)
        \/ ReaderCheck(r)
        \/ ReaderFetch(r)
        \/ ReaderWrite(r)
        \/ ReaderReturn(r)

\* what one recording[i] alone returns on the Recording as constructed
SequentialGet(i) ==
    EpochGetItem([erec EXCEPT !.cache = [k \in 1..Len(erec.trials) |-> NoData]], i)

\* C23: with the cache enabled and no mutation in progress, in every
\* interleaving of the readers' cache checks, fetches and cache writes each
\* reader returns what a single sequential recording[i] returns, and a cache
\* slot once written holds the data of its own trial.
C23_ConcurrentReaders ==
    /\ \A r \in DOMAIN rd.at :
          rd.at[r].pc = "done" =>
              /\ rd.at[r].kind = SequentialGet(rd.at[r].i).kind
              /\ rd.at[r].x = SequentialGet(rd.at[r].i).x
              /\ rd.at[r].y = SequentialGet(rd.at[r].i).y
    /\ \A k \in 1..Len(erec.cache) :
          erec.cache[k] # NoData => erec.cache[k] = TrialData(erec.set, k)

\* one reader is about to write a slot that the other has already filled and
\* returned from
C23_Witness ==
    /\ erec.cached
    /\ rd.at[1].pc = "done" /\ rd.at[1].kind = "ok"
    /\ rd.at[2].pc = "write"
    /\ PosOf(erec, rd.at[2].idx) = PosOf(erec, rd.at[1].idx)
    /\ erec.cache[PosOf(erec, rd.at[2].idx)] # NoData
    /\ Len(erec.trials) > 1

----------------------------------------------------------------------------
(* preprocess on a Dataset and on a Thinker, and the items read afterwards.   *)

MaxPreps == 2
NumPrepThinkers == 2
MaxPrepSessions == 2

\* the Recordings (thinker, session), by position, of a Dataset of the shape
PrepRecordings(shape) ==
    {ks \in (1..NumPrepThinkers) \X (1..MaxPrepSessions) : ks[2] <= shape[ks[1]]}

\* the transform lists of the Dataset, of its Thinkers and of its Recordings
PrepLists(d) == [ds |-> d.ds, th |-> d.th, rec |-> d.rec]

\* lines 256-259 / 314-317: recording.preprocess(preprocessor, apply_transform)
RecordingPreprocess(d, ks, p, apply_transform) ==
    IF apply_transform THEN [d EXCEPT !.rec[ks] = Append(@, p)] ELSE d

\* lines 537-541: for session in sessions: session.preprocess(preprocessor);
\* then if apply_transform: self.add_transform(preprocessor.get_transform())
RECURSIVE PreprocessSessions(_, _, _, _)
PreprocessSessions(d, k, js, p) ==
    IF js = <<>> THEN d
    ELSE PreprocessSessions(RecordingPreprocess(d, <<k, Head(js)>>, p, TRUE),
                            k, Tail(js), p)

\* lines 516-542: thinker.preprocess(preprocessor, apply_transform, sessions);
\* sessions <<>> stands for None: list(self.sessions.values())
ThinkerPreprocessed(d, k, p, apply_transform, scope_sessions) ==
    LET js == IF scope_sessions = <<>> THEN [j \in 1..d.shape[k] |-> j] ELSE scope_sessions
        ran == PreprocessSessions(d, k, js, p)
    IN  IF apply_transform THEN [ran EXCEPT !.th[k] = Append(@, p)] ELSE ran

\* lines 753-755: for thinker in thinkers: thinker.preprocess(preprocessor)
RECURSIVE PreprocessThinkers(_, _, _)
PreprocessThinkers(d, ks, p) ==
    IF ks = <<>> THEN d
    ELSE PreprocessThinkers(ThinkerPreprocessed(d, Head(ks), p, TRUE, <<>>), Tail(ks), p)

\* the Recordings a preprocessor was called on between two states
RanOn(ks, shape) == {r \in PrepRecordings(shape) : r[1] \in Range(ks)}

NoPrepOut == [op |-> "none", target |-> 0, p |-> 0, apply |-> FALSE, scope |-> <<>>,
              kind |-> "none", ran |-> {}, before |-> <<>>, log |-> <<>>]

\* lines 732-758: dataset.preprocess(preprocessor, apply_transform, thinkers);
\* thinkers <<>> stands for None: self.get_thinkers(), the list of the keys,
\* and a key has no preprocess
DatasetPreprocess(apply_transform, scope_thinkers) ==
    /\ pds.calls < MaxPreps
    /\ LET p == pds.calls + 1
           ran == PreprocessThinkers(pds, scope_thinkers, p)
           done == IF apply_transform THEN [ran EXCEPT !.ds = Append(@, p)] ELSE ran
       IN  IF scope_thinkers = <<>>
           THEN /\ pds' = [pds EXCEPT !.calls = p]
                /\ pout' = [NoPrepOut EXCEPT !.op = "dataset_preprocess", !.p = p,
                               !.apply = apply_transform, !.kind = "AttributeError",
                               !.before = PrepLists(pds)]
           ELSE /\ pds' = [done EXCEPT !.calls = p,
                               !.applied = IF apply_transform THEN @ \cup {p} ELSE @]
                /\ pout' = [NoPrepOut EXCEPT !.op = "dataset_preprocess", !.p = p,
                               !.apply = apply_transform, !.scope = scope_thinkers,
                               !.kind = "ok", !.ran = RanOn(scope_thinkers, pds.shape),
                               !.before = PrepLists(pds)]

\* thinker.preprocess(preprocessor, apply_transform, sessions) on the k-th Thinker
ThinkerPreprocess(k, apply_transform, scope_sessions) ==
    /\ pds.calls < MaxPreps
    /\ \A i \in 1..Len(scope_sessions) : scope_sessions[i] <= pds.shape[k]
    /\ LET p == pds.calls + 1
           js == IF scope_sessions = <<>> THEN [j \in 1..pds.shape[k] |-> j] ELSE scope_sessions
       IN  /\ pds' = [ThinkerPreprocessed(pds, k, p, apply_transform, scope_sessions)
                         EXCEPT !.calls = p]
           /\ pout' = [NoPrepOut EXCEPT !.op = "thinker_preprocess", !.target = k,
                          !.p = p, !.apply = apply_transform, !.scope = scope_sessions,
                          !.kind = "ok", !.ran = {<<k, js[i]>> : i \in 1..Len(js)},
                          !.before = PrepLists(pds)]

\* dataset[i] for an item of Recording ks: the three lists run innermost first
PrepGetItem(ks) ==
    /\ ks \in PrepRecordings(pds.shape)
    /\ pout' = [NoPrepOut EXCEPT !.op = "get", !.target = ks[1],
                   !.log = ExecuteTransforms(
                              ExecuteTransforms(
                                ExecuteTransforms([log |-> <<>>], "recording", pds.rec[ks]),
                                "thinker", pds.th[ks[1]]),
                              "dataset", pds.ds).log]
    /\ UNCHANGED pds

\* non-empty lists of distinct positions below n, in increasing order
ScopeLists(n) ==
    {l \in UNION {[1..m -> 1..n] : m \in 1..n} : \A i, j \in 1..Len(l) : i < j => l[i] < l[j]}

InitQ ==
    /\ \E shape \in [1..NumPrepThinkers -> 1..MaxPrepSessions] :
          pds = [shape |-> shape, calls |-> 0, applied |-> {}, ds |-> <<>>,
                 th |-> [k \in 1..NumPrepThinkers |-> <<>>],
                 rec |-> [ks \in PrepRecordings(shape) |-> <<>>]]
    /\ pout = NoPrepOut

IdleQ ==
    /\ pds = [shape |-> <<>>, calls |-> 0, applied |-> {}, ds |-> <<>>,
              th |-> <<>>, rec |-> <<>>]
    /\ pout = NoPrepOut

NextQ ==
    \/ \E apply_transform \in BOOLEAN, scope_thinkers \in {<<>>} \cup ScopeLists(NumPrepThinkers) :
          DatasetPreprocess(apply_transform, scope_thinkers)
    \/ \E k \in 1..NumPrepThinkers, apply_transform \in BOOLEAN,
          scope_sessions \in {<<>>} \cup ScopeLists(MaxPrepSessions) :
          ThinkerPreprocess(k, apply_transform, scope_sessions)
    \/ \E ks \in (1..NumPrepThinkers) \X (1..MaxPrepSessions) : PrepGetItem(ks)

\* C22: preprocess(p, apply_transform, scope) on a Dataset or a Thinker runs p
\* against exactly the Recordings of the children in scope (all children when
\* no scope is given) and returns p, and after a call with apply_transform
\* false the transform lists of the Dataset, of every Thinker and of every
\* Recording are unchanged.
C22_PreprocessFrame ==
    pout.op \in {"dataset_preprocess", "thinker_preprocess"} =>
        /\ pout.kind = "ok"
        /\ pout.ran =
             IF pout.op = "dataset_preprocess"
             THEN IF pout.scope = <<>> THEN PrepRecordings(pds.shape)
                  ELSE RanOn(pout.scope, pds.shape)
             ELSE IF pout.scope = <<>>
                  THEN {r \in PrepRecordings(pds.shape) : r[1] = pout.target}
                  ELSE {<<pout.target, pout.scope[i]>> : i \in 1..Len(pout.scope)}
        /\ ~pout.apply => PrepLists(pds) = pout.before

\* C26: after dataset.preprocess(p, apply_transform=True) with some Thinkers in
\* scope, every item read from the Dataset passes through the transform of p
\* exactly once, whether or not its Thinker was in the scope.
C26_TransformOncePerItem ==
    pout.op = "get" =>
        \A p \in pds.applied :
            Cardinality({i \in 1..Len(pout.log) : pout.log[i][2] = p}) = 1

----------------------------------------------------------------------------
IdleR ==
    /\ raw = [state |-> "none", n_times |-> 0, sequence_length |-> 1, stride |-> 1,
              decimate |-> 1, picks |-> <<0>>, preload |-> FALSE,
              stride_load |-> FALSE, num_sequences |-> 0, x |-> <<>>]
    /\ rres = [op |-> "none"]

IdleS ==
    /\ subjects = <<>>
    /\ idkind = "str"
    /\ ids = [dataset |-> FALSE, task |-> FALSE]
    /\ call = [fn |-> "none"]
    /\ pending = <<>>
    /\ yielded = <<>>
    /\ gen = [st |-> "idle"]

Init == InitH /\ IdleR /\ IdleS /\ IdleL /\ IdleI /\ IdleP /\ IdleT /\ IdleO /\ IdleE /\ IdleQ

Next == NextH /\ UNCHANGED rvars /\ UNCHANGED svars /\ UNCHANGED lvars /\ UNCHANGED ivars /\ UNCHANGED pvars /\ UNCHANGED tvars /\ UNCHANGED ovars /\ UNCHANGED evars /\ UNCHANGED qvars

Spec == Init /\ [][Next]_vars

InitRaw == IdleH /\ InitR /\ IdleS /\ IdleL /\ IdleI /\ IdleP /\ IdleT /\ IdleO /\ IdleE /\ IdleQ

NextRaw == NextR /\ UNCHANGED hvars /\ UNCHANGED svars /\ UNCHANGED lvars /\ UNCHANGED ivars /\ UNCHANGED pvars /\ UNCHANGED tvars /\ UNCHANGED ovars /\ UNCHANGED evars /\ UNCHANGED qvars

SpecRaw == InitRaw /\ [][NextRaw]_vars

InitSplit == IdleH /\ IdleR /\ InitS /\ IdleL /\ IdleI /\ IdleP /\ IdleT /\ IdleO /\ IdleE /\ IdleQ

NextSplit == NextS /\ UNCHANGED hvars /\ UNCHANGED rvars /\ UNCHANGED lvars /\ UNCHANGED ivars /\ UNCHANGED pvars /\ UNCHANGED tvars /\ UNCHANGED ovars /\ UNCHANGED evars /\ UNCHANGED qvars

SpecSplit == InitSplit /\ [][NextSplit]_vars

\* the source Dataset carries the ids _make_like_me reads
InitLike ==
    /\ IdleH /\ IdleR /\ InitL /\ IdleI /\ IdleP /\ IdleT /\ IdleO /\ IdleE /\ IdleQ
    /\ subjects = <<>>
    /\ idkind = "str"
    /\ ids \in [dataset : BOOLEAN, task : BOOLEAN]
    /\ call = [fn |-> "none"]
    /\ pending = <<>>
    /\ yielded = <<>>
    /\ gen = [st |-> "idle"]

NextLike == NextL /\ UNCHANGED hvars /\ UNCHANGED rvars /\ UNCHANGED svars /\ UNCHANGED ivars /\ UNCHANGED pvars /\ UNCHANGED tvars /\ UNCHANGED ovars /\ UNCHANGED evars /\ UNCHANGED qvars

SpecLike == InitLike /\ [][NextLike]_vars

\* the Dataset is given both a dataset_id and a task_id
InitItem ==
    /\ InitH /\ IdleR /\ IdleL /\ InitI /\ IdleP /\ IdleT /\ IdleO /\ IdleE /\ IdleQ
    /\ sessions[thinkers[1]] \in ItemThinkers
    /\ subjects = <<>>
    /\ idkind = "str"
    /\ ids = [dataset |-> TRUE, task |-> TRUE]
    /\ call = [fn |-> "none"]
    /\ pending = <<>>
    /\ yielded = <<>>
    /\ gen = [st |-> "idle"]

NextItem == NextI /\ UNCHANGED rvars /\ UNCHANGED svars /\ UNCHANGED lvars /\ UNCHANGED pvars /\ UNCHANGED tvars /\ UNCHANGED ovars /\ UNCHANGED evars /\ UNCHANGED qvars

SpecItem == InitItem /\ [][NextItem]_vars

\* a Dataset over one Thinker, returning every identifier
InitXform ==
    /\ InitH /\ IdleR /\ IdleL /\ IdleS /\ IdleP /\ IdleT /\ IdleO /\ IdleE /\ IdleQ
    /\ sessions[thinkers[1]] \in ItemThinkers
    /\ cfg = [kw |-> [trial |-> TRUE, session |-> TRUE, person |-> TRUE,
                      dataset |-> TRUE, task |-> TRUE],
              flags |-> [trial |-> TRUE, session |-> TRUE, person |-> TRUE,
                         dataset |-> TRUE, task |-> TRUE],
              labelled |-> TRUE]
    /\ xf = NoTransforms
    /\ fetched = [kind |-> "none"]

NextXform == NextX /\ UNCHANGED rvars /\ UNCHANGED svars /\ UNCHANGED lvars /\ UNCHANGED pvars /\ UNCHANGED tvars /\ UNCHANGED ovars /\ UNCHANGED evars /\ UNCHANGED qvars

SpecXform == InitXform /\ [][NextXform]_vars

InitFoldSpec ==
    /\ IdleH /\ IdleR /\ IdleS /\ IdleL /\ IdleI /\ InitFold /\ IdleT /\ IdleO /\ IdleE /\ IdleQ
NextFold ==
    (NextQuery \/ NextAttach)
    /\ UNCHANGED hvars /\ UNCHANGED rvars /\ UNCHANGED svars
    /\ UNCHANGED lvars /\ UNCHANGED ivars /\ UNCHANGED tvars /\ UNCHANGED ovars /\ UNCHANGED evars /\ UNCHANGED qvars
SpecFold == InitFoldSpec /\ [][NextFold]_vars

InitMixedSpec ==
    /\ IdleH /\ IdleR /\ IdleS /\ IdleL /\ IdleI /\ InitMixed /\ IdleT /\ IdleO /\ IdleE /\ IdleQ
NextMixed ==
    NextQuery
    /\ UNCHANGED hvars /\ UNCHANGED rvars /\ UNCHANGED svars
    /\ UNCHANGED lvars /\ UNCHANGED ivars /\ UNCHANGED tvars /\ UNCHANGED ovars /\ UNCHANGED evars /\ UNCHANGED qvars
SpecMixed == InitMixedSpec /\ [][NextMixed]_vars

InitThinkerSplit ==
    /\ IdleH /\ IdleR /\ IdleS /\ IdleL /\ IdleI /\ IdleP /\ InitT /\ IdleO /\ IdleE /\ IdleQ
NextThinkerSplit ==
    NextT
    /\ UNCHANGED hvars /\ UNCHANGED rvars /\ UNCHANGED svars
    /\ UNCHANGED lvars /\ UNCHANGED ivars /\ UNCHANGED pvars /\ UNCHANGED ovars /\ UNCHANGED evars /\ UNCHANGED qvars
SpecThinkerSplit == InitThinkerSplit /\ [][NextThinkerSplit]_vars

InitIds ==
    /\ IdleH /\ IdleR /\ IdleS /\ IdleL /\ IdleI /\ IdleP /\ IdleT /\ InitO /\ IdleE /\ IdleQ
NextIds ==
    NextO
    /\ UNCHANGED hvars /\ UNCHANGED rvars /\ UNCHANGED svars
    /\ UNCHANGED lvars /\ UNCHANGED ivars /\ UNCHANGED pvars /\ UNCHANGED tvars
    /\ UNCHANGED evars /\ UNCHANGED qvars
SpecIds == InitIds /\ [][NextIds]_vars

InitEpoch ==
    /\ IdleH /\ IdleR /\ IdleS /\ IdleL /\ IdleI /\ IdleP /\ IdleT /\ IdleO /\ InitE /\ IdleQ
NextEpoch ==
    NextE
    /\ UNCHANGED hvars /\ UNCHANGED rvars /\ UNCHANGED svars
    /\ UNCHANGED lvars /\ UNCHANGED ivars /\ UNCHANGED pvars /\ UNCHANGED tvars
    /\ UNCHANGED ovars /\ UNCHANGED qvars
SpecEpoch == InitEpoch /\ [][NextEpoch]_vars

InitReaders ==
    /\ IdleH /\ IdleR /\ IdleS /\ IdleL /\ IdleI /\ IdleP /\ IdleT /\ IdleO
    /\ InitReadersE /\ IdleQ
NextReaders ==
    NextReadersE
    /\ UNCHANGED hvars /\ UNCHANGED rvars /\ UNCHANGED svars
    /\ UNCHANGED lvars /\ UNCHANGED ivars /\ UNCHANGED pvars /\ UNCHANGED tvars
    /\ UNCHANGED ovars /\ UNCHANGED qvars
SpecReaders == InitReaders /\ [][NextReaders]_vars

InitPrep ==
    /\ IdleH /\ IdleR /\ IdleS /\ IdleL /\ IdleI /\ IdleP /\ IdleT /\ IdleO
    /\ IdleE /\ InitQ
NextPrep ==
    NextQ
    /\ UNCHANGED hvars /\ UNCHANGED rvars /\ UNCHANGED svars
    /\ UNCHANGED lvars /\ UNCHANGED ivars /\ UNCHANGED pvars /\ UNCHANGED tvars
    /\ UNCHANGED ovars /\ UNCHANGED evars
SpecPrep == InitPrep /\ [][NextPrep]_vars

====
